---- MODULE Spec2Model ----
(***************************************************************************)
(* Model of the text reflow engine of b4 (src/src/b4/style.py):            *)
(* format_text and its helpers _is_bullet_line, _is_preformatted and       *)
(* _format_paragraph, together with the behaviour of the standard          *)
(* textwrap.TextWrapper that _format_paragraph configures.                 *)
(*                                                                         *)
(* Python strings are TLA+ strings; a list of strings is a sequence of     *)
(* strings.  One run of format_text is a behaviour: Init is the state on   *)
(* entry (arguments bound, locals initialised), every iteration of the     *)
(* two loops is a step, and the return statement is the last step.         *)
(***************************************************************************)
EXTENDS Integers, Sequences, FiniteSets, TLC

(***************************************************************************)
(* Bounds of the checked input space.                                      *)
(***************************************************************************)
MaxLines == 3
MaxShapeLines == 2
MaxIndent == 1
MaxWidth == 5

(***************************************************************************)
(* Characters.  Whitespace is the part of Python's str whitespace that the *)
(* inputs below use; the only line boundary they use is "\n".              *)
(***************************************************************************)
Whitespace == {" ", "\t", "\n"}
Digits == {"0", "1", "2", "3", "4", "5", "6", "7", "8", "9"}
Markers == {"-", "*", "+"}
\* A TLA+ string cannot hold the backquote character: "~" stands for it.
BackQuote == "~"
Fence == BackQuote \o BackQuote \o BackQuote
FourSpaces == "    "
TabSize == 8

(***************************************************************************)
(* str primitives.                                                         *)
(***************************************************************************)
Ch(s, n) == SubSeq(s, n, n)

Drop(s, n) == SubSeq(s, n + 1, Len(s))

StartsWith(s, p) == Len(s) >= Len(p) /\ SubSeq(s, 1, Len(p)) = p

EndsWith(s, p) == Len(s) >= Len(p) /\ SubSeq(s, Len(s) - Len(p) + 1, Len(s)) = p

RECURSIVE LStripSet(_, _)
LStripSet(s, cs) ==
    IF s = "" THEN ""
    ELSE IF Ch(s, 1) \in cs THEN LStripSet(Drop(s, 1), cs)
    ELSE s

RECURSIVE RStripSet(_, _)
RStripSet(s, cs) ==
    IF s = "" THEN ""
    ELSE IF Ch(s, Len(s)) \in cs THEN RStripSet(SubSeq(s, 1, Len(s) - 1), cs)
    ELSE s

LStrip(s) == LStripSet(s, Whitespace)

RStrip(s) == RStripSet(s, Whitespace)

Strip(s) == LStrip(RStrip(s))

RECURSIVE IsDigitFrom(_, _)
IsDigitFrom(s, n) ==
    IF n > Len(s) THEN TRUE
    ELSE Ch(s, n) \in Digits /\ IsDigitFrom(s, n + 1)

\* str.isdigit(): non-empty and every character a digit
IsDigit(s) == s # "" /\ IsDigitFrom(s, 1)

RECURSIVE Join(_, _)
Join(ss, sep) ==
    IF ss = <<>> THEN ""
    ELSE IF Len(ss) = 1 THEN ss[1]
    ELSE ss[1] \o sep \o Join(Tail(ss), sep)

RECURSIVE Spaces(_)
Spaces(n) == IF n <= 0 THEN "" ELSE " " \o Spaces(n - 1)

RECURSIVE SplitLinesAcc(_, _)
SplitLinesAcc(s, cur) ==
    IF s = "" THEN (IF cur = "" THEN <<>> ELSE <<cur>>)
    ELSE IF Ch(s, 1) = "\n" THEN <<cur>> \o SplitLinesAcc(Drop(s, 1), "")
    ELSE SplitLinesAcc(Drop(s, 1), cur \o Ch(s, 1))

\* str.splitlines(): no empty last line after a final line boundary
SplitLines(s) == SplitLinesAcc(s, "")

RECURSIVE SplitAcc(_, _)
SplitAcc(s, cur) ==
    IF s = "" THEN (IF cur = "" THEN <<>> ELSE <<cur>>)
    ELSE IF Ch(s, 1) \in Whitespace
         THEN (IF cur = "" THEN <<>> ELSE <<cur>>) \o SplitAcc(Drop(s, 1), "")
    ELSE SplitAcc(Drop(s, 1), cur \o Ch(s, 1))

\* str.split(): the whitespace-delimited words
Split(s) == SplitAcc(s, "")

\* str.split(maxsplit=1): the first word, and the rest of the string when
\* something other than whitespace follows it
SplitMax1(s) ==
    LET ws == Split(s)
    IN  IF Len(ws) <= 1 THEN ws
        ELSE <<ws[1], LStrip(Drop(LStrip(s), Len(ws[1])))>>

RECURSIVE FindSpace(_, _)
\* str.find(' ') as a 0-based index counted from position n, -1 when absent
FindSpace(s, n) ==
    IF n > Len(s) THEN -1
    ELSE IF Ch(s, n) = " " THEN n - 1
    ELSE FindSpace(s, n + 1)

(***************************************************************************)
(* _is_bullet_line and _is_preformatted.                                   *)
(***************************************************************************)
StartsWithMarker(s) == s # "" /\ Ch(s, 1) \in Markers

IsBulletLine(line) ==
    LET stripped == LStrip(line)
    IN  IF stripped = "" THEN FALSE
        ELSE IF StartsWithMarker(stripped) /\ Len(SplitMax1(stripped)) > 1 THEN TRUE
        ELSE IsDigit(RStripSet(SplitMax1(stripped)[1], {"."}))

\* one iteration of the loop of _is_preformatted: does this line decide True
PreformattedLine(line) ==
    LET stripped == RStripSet(line, {"\n"})
    IN  /\ Strip(stripped) # ""
        /\ \/ StartsWith(stripped, Fence)
           \/ StartsWith(stripped, FourSpaces)
           \/ StartsWith(stripped, "\t")

IsPreformatted(ls) == \E n \in 1..Len(ls) : PreformattedLine(ls[n])

(***************************************************************************)
(* textwrap.TextWrapper as configured by _format_paragraph: width,         *)
(* break_long_words=False, break_on_hyphens=False, drop_whitespace=True,   *)
(* initial_indent and subsequent_indent; the other options keep their      *)
(* defaults (expand_tabs, tabsize 8, replace_whitespace).                  *)
(***************************************************************************)
RECURSIVE ExpandTabsFrom(_, _)
\* str.expandtabs(8) of a text without line boundaries, col the column so far
ExpandTabsFrom(s, col) ==
    IF s = "" THEN ""
    ELSE IF Ch(s, 1) = "\t"
         THEN LET incr == TabSize - (col % TabSize)
              IN  Spaces(incr) \o ExpandTabsFrom(Drop(s, 1), col + incr)
    ELSE Ch(s, 1) \o ExpandTabsFrom(Drop(s, 1), col + 1)

RECURSIVE ReplaceWhitespace(_)
ReplaceWhitespace(s) ==
    IF s = "" THEN ""
    ELSE (IF Ch(s, 1) \in Whitespace THEN " " ELSE Ch(s, 1)) \o ReplaceWhitespace(Drop(s, 1))

\* TextWrapper._munge_whitespace
MungeWhitespace(s) == ReplaceWhitespace(ExpandTabsFrom(s, 0))

RECURSIVE ChunksAcc(_, _)
ChunksAcc(s, cur) ==
    IF s = "" THEN (IF cur = "" THEN <<>> ELSE <<cur>>)
    ELSE IF cur = "" \/ ((Ch(s, 1) \in Whitespace) <=> (Ch(cur, 1) \in Whitespace))
         THEN ChunksAcc(Drop(s, 1), cur \o Ch(s, 1))
    ELSE <<cur>> \o ChunksAcc(Drop(s, 1), Ch(s, 1))

\* TextWrapper._split with break_on_hyphens=False: the words and the
\* whitespace runs between them, in order
SplitChunks(s) == ChunksAcc(MungeWhitespace(s), "")

RECURSIVE TakeFitOneMore(_, _, _)
\* TakeFit counting one column too many
TakeFitOneMore(chunks, curLen, avail) ==
    IF chunks = <<>> THEN 0
    ELSE IF curLen + Len(chunks[1]) <= avail + 1
         THEN 1 + TakeFitOneMore(Tail(chunks), curLen + Len(chunks[1]), avail)
    ELSE 0

RECURSIVE TakeFit(_, _, _)
\* the inner loop of _wrap_chunks: how many leading chunks fit in avail columns
TakeFit(chunks, curLen, avail) ==
    IF chunks = <<>> THEN 0
    ELSE IF curLen + Len(chunks[1]) <= avail
         THEN 1 + TakeFit(Tail(chunks), curLen + Len(chunks[1]), avail)
    ELSE 0

IsBlankChunk(c) == Strip(c) = ""

RECURSIVE WrapChunks(_, _, _, _, _)
\* TextWrapper._wrap_chunks; started says that a line has been produced
WrapChunks(chunks, started, width, initial_indent, subsequent_indent) ==
    IF chunks = <<>> THEN <<>>
    ELSE LET ind == IF started THEN subsequent_indent ELSE initial_indent
             avail == width - Len(ind)
             \* a whitespace chunk never starts a line but the first
             cs == IF IsBlankChunk(chunks[1]) /\ started THEN Tail(chunks) ELSE chunks
             fit == TakeFit(cs, 0, avail)
             \* _handle_long_word with break_long_words=False: a chunk too
             \* long for any line goes alone on an empty line
             n == IF fit < Len(cs) /\ Len(cs[fit + 1]) > avail /\ fit = 0 THEN 1 ELSE fit
             taken == SubSeq(cs, 1, n)
             \* drop_whitespace: a whitespace chunk never ends a line
             cur_line == IF taken # <<>> /\ IsBlankChunk(taken[Len(taken)])
                         THEN SubSeq(taken, 1, Len(taken) - 1) ELSE taken
             out == IF cur_line # <<>> THEN <<ind \o Join(cur_line, "")>> ELSE <<>>
         IN  out \o WrapChunks(SubSeq(cs, n + 1, Len(cs)), started \/ out # <<>>,
                               width, initial_indent, subsequent_indent)

\* TextWrapper.wrap: the list of output lines
Wrap(s, width, initial_indent, subsequent_indent) ==
    WrapChunks(SplitChunks(s), FALSE, width, initial_indent, subsequent_indent)

\* TextWrapper.fill
Fill(s, width, initial_indent, subsequent_indent) ==
    Join(Wrap(s, width, initial_indent, subsequent_indent), "\n")

(***************************************************************************)
(* _format_paragraph.                                                      *)
(***************************************************************************)
RECURSIVE StrippedNonBlank(_)
StrippedNonBlank(ls) ==
    IF ls = <<>> THEN <<>>
    ELSE (IF Strip(ls[1]) # "" THEN <<Strip(ls[1])>> ELSE <<>>) \o StrippedNonBlank(Tail(ls))

Contents(ls) == Join(StrippedNonBlank(ls), " ")

\* lstripped[: lstripped.find(' ') if ' ' in lstripped else len(lstripped)]
UpToFirstSpace(s) ==
    IF FindSpace(s, 1) >= 0 THEN SubSeq(s, 1, FindSpace(s, 1)) ELSE s

\* the value of bullet_prefix after the if/elif of lines 51-58
BulletPrefix(ls) ==
    LET lstripped == LStrip(ls[1])
    IN  IF StartsWithMarker(lstripped) /\ Len(SplitMax1(lstripped)) > 1
        THEN SplitMax1(lstripped)[1]
        ELSE IF IsDigit(RStripSet(UpToFirstSpace(lstripped), {"."}))
             THEN LET chunk == SplitMax1(lstripped)[1]
                  IN  IF EndsWith(chunk, ".") THEN chunk ELSE ""
        ELSE ""

Remainder(ls) == LStrip(Drop(Contents(ls), Len(BulletPrefix(ls))))

InitialIndent(ls, indent) ==
    IF BulletPrefix(ls) # "" THEN Spaces(indent) \o BulletPrefix(ls) \o " "
    ELSE Spaces(indent)

\* SubsequentIndent forgetting the indent of a paragraph without marker
SubsequentIndentBare(ls, indent) ==
    IF BulletPrefix(ls) # "" THEN Spaces(indent) \o Spaces(Len(BulletPrefix(ls)) + 1)
    ELSE ""

SubsequentIndent(ls, indent) ==
    IF BulletPrefix(ls) # "" THEN Spaces(indent) \o Spaces(Len(BulletPrefix(ls)) + 1)
    ELSE Spaces(indent)

FormatParagraph(ls, indent, width) ==
    IF Contents(ls) = "" THEN ""
    ELSE Fill(IF BulletPrefix(ls) # "" THEN Remainder(ls) ELSE Contents(ls),
              width, InitialIndent(ls, indent), SubsequentIndent(ls, indent))

(***************************************************************************)
(* format_text as a state machine.                                         *)
(*                                                                         *)
(* pc = "scan"     : in the loop of lines 96-106, i lines consumed         *)
(* pc = "collapse" : in the loop of lines 112-119, k paragraphs consumed   *)
(* pc = "done"     : returned, result holds the returned string            *)
(* pc = "raised"   : left by the ValueError of textwrap, nothing returned   *)
(*                                                                         *)
(* flushed is a history of the scan: flushed[n] is the list of input lines *)
(* that paragraphs[n] was made from (the block handed to flush_block, or   *)
(* the blank line that appended '').                                       *)
(***************************************************************************)
VARIABLES text, indent, width, lines, i, block, paragraphs, flushed,
          normalized, blank_pending, k, result, pc

\* peer: a second invocation of format_text whose steps are taken between
\* the steps of the first; the record holds its arguments and its locals
VARIABLES peer

\* download_and_combine_threads (dig.py): its arguments msgid and
\* related_messages, its locals seen_local (of _unique_msgids), seen_msgids,
\* all_messages and total_messages, and
\*   cand        : how many candidates _unique_msgids has gone through
\*   fetch_calls : the ids b4.get_pi_thread_by_msgid was called with, in order
\*   fetched     : the threads those calls returned (none for a failed call)
\*   mbox        : the messages written to output_file, NoFile when none is
\*   dpc         : "idle", "fetch" (the loop of lines 512-527), "sort", "done"
VARIABLES msgid, related_messages, cand, seen_local, seen_msgids, all_messages,
          fetch_calls, fetched, total_messages, mbox, dpc

digVars == <<msgid, related_messages, cand, seen_local, seen_msgids, all_messages,
             fetch_calls, fetched, total_messages, mbox, dpc>>

\* parse_agent_response (dig.py): its argument response, its locals data,
\* related and seen, and
\*   sent       : what the agent wrote, response being its text: pre and post
\*                are the text around body, a JSON value (JNull: no JSON)
\*   from_json  : related as the loop of lines 467-470 left it
\*   fell_back  : the loop of lines 472-474 was entered
\*   ppc        : "idle", "load" (line 449), "items" (line 467), "fallback"
\*                (line 472), "done", "raised" (left by an AttributeError)
VARIABLES sent, response, data, related, seen, from_json, fell_back, ppc

parseVars == <<sent, response, data, related, seen, from_json, fell_back, ppc>>

\* a call of one of the string helpers sanitize_msgid (ai.py),
\* _sanitize_msgid (dig.py), normalize_output (style.py) and normalize_cover
\* (cover.py): fn names the function, arg is its argument, ret the value it
\* returned, fpc is "idle", "called" or "returned"
VARIABLES fn, arg, ret, fpc

fnVars == <<fn, arg, ret, fpc>>

\* call_agent (ai.py, and its copy in dig.py): its arguments prompt and
\* agent_cmd, its locals cmd_parts (<<>> for None) and tmp_path ("" while
\* unbound), and
\*   callee   : the module whose call_agent runs, "ai" or "dig"
\*   fs       : the file system: mode gives for each agent file whether it
\*              is missing ("none"), not executable ("plain") or executable
\*              ("exec"); tmp holds the temporary files that exist, made
\*              counts the temporary files ever created
\*   runs     : the argument lists subprocess.run was called with
\*   proc     : how subprocess.run, or the statement that raised, ended:
\*              exc is the exception in flight ("" for none)
\*   returned : the value of the return statement reached (None before)
\*   apc      : "idle", "resolve" (line 73), "create" (line 78), "write"
\*              (line 79), "run" (line 85), "finally" (line 108), "done"
\*              (returned), "raised" (left by the exception proc.exc)
VARIABLES callee, prompt, agent_cmd, fs, cmd_parts, tmp_path, runs, proc,
          returned, apc

agentVars == <<callee, prompt, agent_cmd, fs, cmd_parts, tmp_path, runs, proc,
               returned, apc>>

\* main of style.py: its argument cmdargs (the fields output, indent,
\* max_lines and config, the options given with -c), its locals raw
\* (raw_text here, the name build_prompt gives it) and example; its locals
\* agent_cmd, prompt and response are the arguments of call_agent and the
\* value it returned; and
\*   main_config : what b4.get_main_config returns, as far as resolve_agent
\*                 reads it: the keys style-agent and agent
\*   written     : what was written to standard output and to the file
\*                 cmdargs.output (None: no file written)
\*   status      : the exit status once main has exited
\*   mpc         : "idle", "start" (line 198), "agent" (in call_agent, line
\*                 215), "exited" (returned, or left by sys.exit), "raised"
\*                 (left by another exception)
VARIABLES cmdargs, main_config, raw_text, example, written, status, mpc

mainVars == <<cmdargs, main_config, raw_text, example, written, status, mpc>>

\* the helpers, the agent runner and the command, which the formatter, the
\* downloader and the parser of the response do not touch
toolVars == <<fnVars, agentVars, mainVars>>

vars == <<text, indent, width, lines, i, block, paragraphs, flushed,
          normalized, blank_pending, k, result, pc, peer, digVars, parseVars,
          toolVars>>

\* the state outside the invocation of format_text that the variables above
\* describe
elsewhere == <<peer, digVars, parseVars, toolVars>>

styleVars == <<text, indent, width, lines, i, block, paragraphs, flushed,
               normalized, blank_pending, k, result, pc, peer>>

\* no output file; a written file holds the messages saved to it
NoFile == [exists |-> FALSE, messages |-> <<>>]

\* a JSON value as json.loads gives it: t is its type ("null", "true",
\* "false", "num", "str", "arr", "obj"), s the text of a string or number,
\* kids the elements of an array or the pairs of an object; a pair has
\* t = "pair", the key as s and the value as its one kid
JValue(t, s, kids) == [t |-> t, s |-> s, kids |-> kids]

\* None, which is also what json.loads gives for null
JNull == JValue("null", "", <<>>)

\* an Optional[str]: None, or the string str
None == [isnone |-> TRUE, str |-> ""]

Some(str) == [isnone |-> FALSE, str |-> str]

\* no helper is being called
FnIdle == fn = "" /\ arg = None /\ ret = None /\ fpc = "idle"

\* the files an agent command can name: by absolute path, through PATH,
\* and below the home directory
AgentFiles == {"/a", "/bin/a", "/h/a"}

\* no agent file, no temporary file
EmptyFs == [mode |-> [f \in AgentFiles |-> "none"], tmp |-> {}, made |-> 0]

\* subprocess.run has not been called and nothing was raised
NoProc == [returncode |-> 0, stdout |-> "", exc |-> ""]

\* call_agent has not been called
NotCalled ==
    /\ callee = "" /\ prompt = "" /\ agent_cmd = ""
    /\ cmd_parts = <<>> /\ tmp_path = "" /\ runs = <<>> /\ proc = NoProc
    /\ returned = None /\ apc = "idle"

\* call_agent is not running
AgentIdle == NotCalled /\ fs = EmptyFs

\* nothing written
NoOutput == [stdout |-> "", file |-> None]

\* no option given with -c
NoOptions == [STYLE_AGENT |-> None, AGENT |-> None]

\* no agent in the configuration
NoAgents == [style_agent |-> None, agent |-> None]

\* main is not running
MainIdle ==
    /\ cmdargs = [output |-> "-", indent |-> 0, max_lines |-> 1, config |-> NoOptions]
    /\ main_config = NoAgents
    /\ raw_text = "" /\ example = "" /\ written = NoOutput
    /\ status = 0 /\ mpc = "idle"

\* the helpers, the agent runner and the command are not running
ToolsIdle == FnIdle /\ AgentIdle /\ MainIdle

\* parse_agent_response is not running
ParseIdle ==
    /\ sent = [pre |-> "", body |-> JNull, post |-> ""] /\ response = ""
    /\ data = JNull /\ related = <<>> /\ seen = {} /\ from_json = <<>>
    /\ fell_back = FALSE /\ ppc = "idle"

\* download_and_combine_threads is not running
DigIdle ==
    /\ msgid = "" /\ related_messages = <<>> /\ cand = 0
    /\ seen_local = {} /\ seen_msgids = {} /\ all_messages = <<>>
    /\ fetch_calls = <<>> /\ fetched = <<>> /\ total_messages = 0
    /\ mbox = NoFile /\ dpc = "idle"

\* The inputs.  Texts: up to MaxLines lines taken from the kinds of line the
\* scan tells apart (blank, plain, list item, number alone, fence, indented).
LineSet ==
    { "", " ", "a b", " bb  c", "- a b", "1.", Fence, "    a b" }

\* ShapeTexts: up to MaxShapeLines lines, one of which may be taken from more
\* shapes of line
\* (long word, numbered item, bare number, tab after the marker, marker
\* alone, marker glued to a word, indented fence, tab indent).
ShapeSet ==
    LineSet \cup { "aaaa", "1. a b", "1 a", "1) a", "1.\ta b",
                   "-", "-a b", " " \o Fence, "\ta " }

RECURSIVE LineSeqs(_, _)
LineSeqs(ls, n) ==
    IF n = 0 THEN {<<>>}
    ELSE {<<>>} \cup {<<l>> \o rest : l \in ls, rest \in LineSeqs(ls, n - 1)}

Texts == {Join(ls, "\n") : ls \in LineSeqs(LineSet, MaxLines)}

\* at most one line of ls is of a shape outside LineSet
OneShape(ls) == Cardinality({m \in 1..Len(ls) : ls[m] \notin LineSet}) <= 1

ShapeTexts ==
    {Join(ls, "\n") : ls \in {x \in LineSeqs(ShapeSet, MaxShapeLines) : OneShape(x)}}

\* RenderBlock trimming every line of a preformatted block
RenderBlockTrimLines(blk, ind, wid) ==
    IF IsPreformatted(blk) THEN Join([m \in 1..Len(blk) |-> RStrip(blk[m])], "\n")
    ELSE FormatParagraph(blk, ind, wid)

\* what flush_block appends to paragraphs for a non-empty block
RenderBlock(blk, ind, wid) ==
    IF IsPreformatted(blk) THEN RStrip(Join(blk, "\n"))
    ELSE FormatParagraph(blk, ind, wid)

\* FlushBlock appending an empty paragraph for an empty buffer
FlushBlockAlways(blk, ind, wid) ==
    IF blk = <<>> THEN <<"">> ELSE <<RenderBlock(blk, ind, wid)>>

\* flush_block: the paragraphs it appends (block is empty afterwards)
FlushBlock(blk, ind, wid) ==
    IF blk = <<>> THEN <<>> ELSE <<RenderBlock(blk, ind, wid)>>

\* the history entry that goes with FlushBlock
FlushedOf(blk) == IF blk = <<>> THEN <<>> ELSE <<blk>>

\* WrapRaises for a width that leaves no room after the first character
WrapRaisesBelowTwo(wid) == wid <= 1

\* textwrap: wrap() raises ValueError("invalid width") unless width > 0
WrapRaises(wid) == wid <= 0

\* flush_block raises: the block goes to _format_paragraph, whose text is
\* never empty for a block of non-blank lines, and fill() raises
FlushRaises(blk, wid) == blk # <<>> /\ ~IsPreformatted(blk) /\ WrapRaises(wid)

\* the frame of a call format_text(t, ind, wid) on entry: its arguments and
\* its locals (lines 85, 86, 95, 109) as a record
Call(t, ind, wid) ==
    [text |-> t, indent |-> ind, width |-> wid, lines |-> SplitLines(t), i |-> 0,
     block |-> <<>>, paragraphs |-> <<>>, normalized |-> <<>>,
     blank_pending |-> FALSE, k |-> 0, result |-> "", pc |-> "scan"]

\* no second invocation
NoCall == [Call("", 0, 1) EXCEPT !.pc = "idle"]

\* nothing goes on outside the invocation
Alone == peer = NoCall /\ DigIdle /\ ParseIdle /\ ToolsIdle

\* the state on entry of format_text(text, indent, width), text among ts and
\* width among ws
Enter(ts, ws) ==
    /\ text \in ts
    /\ indent \in 0..MaxIndent
    /\ width \in ws
    /\ lines = SplitLines(text)
    /\ i = 0
    /\ block = <<>>
    /\ paragraphs = <<>>
    /\ flushed = <<>>
    /\ normalized = <<>>
    /\ blank_pending = FALSE
    /\ k = 0
    /\ result = ""
    /\ pc = "scan"

\* format_text is not running
StyleIdle ==
    /\ text = "" /\ indent = 0 /\ width = 1 /\ lines = <<>> /\ i = 0
    /\ block = <<>> /\ paragraphs = <<>> /\ flushed = <<>> /\ normalized = <<>>
    /\ blank_pending = FALSE /\ k = 0 /\ result = "" /\ pc = "idle"
    /\ peer = NoCall

\* one invocation with a width above 0
Entry(ts) == Enter(ts, 1..MaxWidth) /\ Alone

Init == Entry(Texts)

InitShapes == Entry(ShapeTexts)

\* the widths main() can pass on: --max-lines is not validated, 0 included
Widths == 0..MaxWidth

\* one invocation with any width of Widths
InitTotal == Enter(Texts, Widths) /\ Alone

\* lines 97-99: a blank line flushes the block and appends ''
ScanBlank ==
    /\ pc = "scan" /\ i < Len(lines)
    /\ Strip(lines[i + 1]) = ""
    /\ ~FlushRaises(block, width)
    /\ paragraphs' = paragraphs \o FlushBlock(block, indent, width) \o <<"">>
    /\ flushed' = flushed \o FlushedOf(block) \o <<(<<lines[i + 1]>>)>>
    /\ block' = <<>>
    /\ i' = i + 1
    /\ UNCHANGED <<text, indent, width, lines, normalized, blank_pending, k, result, pc>>
    /\ UNCHANGED elsewhere

\* ScanBullet without the flush that follows the append
ScanBulletKept ==
    /\ pc = "scan" /\ i < Len(lines)
    /\ Strip(lines[i + 1]) # ""
    /\ IsBulletLine(lines[i + 1])
    /\ ~FlushRaises(block, width) /\ ~FlushRaises(<<lines[i + 1]>>, width)
    /\ paragraphs' = paragraphs \o FlushBlock(block, indent, width)
    /\ flushed' = flushed \o FlushedOf(block)
    /\ block' = <<lines[i + 1]>>
    /\ i' = i + 1
    /\ UNCHANGED <<text, indent, width, lines, normalized, blank_pending, k, result, pc>>
    /\ UNCHANGED elsewhere

\* lines 101-104: a list item is flushed alone
ScanBullet ==
    /\ pc = "scan" /\ i < Len(lines)
    /\ Strip(lines[i + 1]) # ""
    /\ IsBulletLine(lines[i + 1])
    /\ ~FlushRaises(block, width) /\ ~FlushRaises(<<lines[i + 1]>>, width)
    /\ paragraphs' = paragraphs \o FlushBlock(block, indent, width)
                                \o FlushBlock(<<lines[i + 1]>>, indent, width)
    /\ flushed' = flushed \o FlushedOf(block) \o FlushedOf(<<lines[i + 1]>>)
    /\ block' = <<>>
    /\ i' = i + 1
    /\ UNCHANGED <<text, indent, width, lines, normalized, blank_pending, k, result, pc>>
    /\ UNCHANGED elsewhere

\* lines 105-106: any other line joins the pending block
ScanPlain ==
    /\ pc = "scan" /\ i < Len(lines)
    /\ Strip(lines[i + 1]) # ""
    /\ ~IsBulletLine(lines[i + 1])
    /\ block' = Append(block, lines[i + 1])
    /\ i' = i + 1
    /\ UNCHANGED <<text, indent, width, lines, paragraphs, flushed, normalized,
                   blank_pending, k, result, pc>>
    /\ UNCHANGED elsewhere

\* line 107: the flush after the loop
FinalFlush ==
    /\ pc = "scan" /\ i = Len(lines)
    /\ ~FlushRaises(block, width)
    /\ paragraphs' = paragraphs \o FlushBlock(block, indent, width)
    /\ flushed' = flushed \o FlushedOf(block)
    /\ block' = <<>>
    /\ pc' = "collapse"
    /\ UNCHANGED <<text, indent, width, lines, i, normalized, blank_pending, k, result>>
    /\ UNCHANGED elsewhere

\* lines 113-116: an empty paragraph
CollapseBlank ==
    /\ pc = "collapse" /\ k < Len(paragraphs)
    /\ paragraphs[k + 1] = ""
    /\ normalized' = IF ~blank_pending /\ normalized # <<>>
                     THEN Append(normalized, "") ELSE normalized
    /\ blank_pending' = TRUE
    /\ k' = k + 1
    /\ UNCHANGED <<text, indent, width, lines, i, block, paragraphs, flushed, result, pc>>
    /\ UNCHANGED elsewhere

\* lines 117-119: a non-empty paragraph
CollapsePara ==
    /\ pc = "collapse" /\ k < Len(paragraphs)
    /\ paragraphs[k + 1] # ""
    /\ normalized' = Append(normalized, paragraphs[k + 1])
    /\ blank_pending' = FALSE
    /\ k' = k + 1
    /\ UNCHANGED <<text, indent, width, lines, i, block, paragraphs, flushed, result, pc>>
    /\ UNCHANGED elsewhere

\* Assemble without the rstrip
AssembleKeepTail(norm) == Join(norm, "\n") \o "\n"

\* the value returned at line 121
Assemble(norm) == RStrip(Join(norm, "\n")) \o "\n"

Return ==
    /\ pc = "collapse" /\ k = Len(paragraphs)
    /\ result' = Assemble(normalized)
    /\ pc' = "done"
    /\ UNCHANGED <<text, indent, width, lines, i, block, paragraphs, flushed,
                   normalized, blank_pending, k>>
    /\ UNCHANGED elsewhere

\* the flushes of the step at line i + 1 (lines 98, 102, 104), or of line 107
\* after the last line: does one of them raise
StepRaises ==
    IF i = Len(lines) THEN FlushRaises(block, width)
    ELSE IF Strip(lines[i + 1]) = "" THEN FlushRaises(block, width)
    ELSE IF IsBulletLine(lines[i + 1])
         THEN FlushRaises(block, width) \/ FlushRaises(<<lines[i + 1]>>, width)
    ELSE FALSE

\* the ValueError of textwrap leaves format_text: nothing is returned
Raise ==
    /\ pc = "scan"
    /\ StepRaises
    /\ pc' = "raised"
    /\ UNCHANGED <<text, indent, width, lines, i, block, paragraphs, flushed,
                   normalized, blank_pending, k, result>>
    /\ UNCHANGED elsewhere

Next ==
    \/ ScanBlank
    \/ ScanBullet
    \/ ScanPlain
    \/ FinalFlush
    \/ CollapseBlank
    \/ CollapsePara
    \/ Return

Spec == Init /\ [][Next]_vars

SpecShapes == InitShapes /\ [][Next]_vars

\* format_text with any width: the steps of Next, and the raise
NextTotal ==
    \/ ScanBlank
    \/ ScanBullet
    \/ ScanPlain
    \/ FinalFlush
    \/ CollapseBlank
    \/ CollapsePara
    \/ Return
    \/ Raise

SpecTotal == InitTotal /\ [][NextTotal]_vars

(***************************************************************************)
(* Two invocations of format_text.  Everything format_text writes is a     *)
(* local of the call (paragraphs, block, lines at lines 83-85, normalized  *)
(* and blank_pending at lines 109-110) or of _format_paragraph; the module *)
(* holds no data of its own.  The second call is therefore a frame of its  *)
(* own, stepped between the steps of the first.                            *)
(***************************************************************************)
MaxCallLines == 2

CallLineSet == { "", "a b", "- a b" }

CallTexts == {Join(ls, "\n") : ls \in LineSeqs(CallLineSet, MaxCallLines)}

PeerTexts == { "a b\n\n- a b\n\n\n bb  c", "    a b\n1.\naaaa" }

\* one step of the call with frame c: an iteration of the scan loop, the
\* flush of line 107, an iteration of the collapse loop, or the return
CallStep(c) ==
    IF c.pc = "scan" /\ c.i < Len(c.lines) THEN
        LET line == c.lines[c.i + 1] IN
        IF Strip(line) = "" THEN
            IF FlushRaises(c.block, c.width) THEN [c EXCEPT !.pc = "raised"]
            ELSE [c EXCEPT !.paragraphs = @ \o FlushBlock(c.block, c.indent, c.width) \o <<"">>,
                           !.block = <<>>, !.i = @ + 1]
        ELSE IF IsBulletLine(line) THEN
            IF FlushRaises(c.block, c.width) \/ FlushRaises(<<line>>, c.width)
            THEN [c EXCEPT !.pc = "raised"]
            ELSE [c EXCEPT !.paragraphs = @ \o FlushBlock(c.block, c.indent, c.width)
                                            \o FlushBlock(<<line>>, c.indent, c.width),
                           !.block = <<>>, !.i = @ + 1]
        ELSE [c EXCEPT !.block = Append(@, line), !.i = @ + 1]
    ELSE IF c.pc = "scan" THEN
        IF FlushRaises(c.block, c.width) THEN [c EXCEPT !.pc = "raised"]
        ELSE [c EXCEPT !.paragraphs = @ \o FlushBlock(c.block, c.indent, c.width),
                       !.block = <<>>, !.pc = "collapse"]
    ELSE IF c.pc = "collapse" /\ c.k < Len(c.paragraphs) THEN
        IF c.paragraphs[c.k + 1] = ""
        THEN [c EXCEPT !.normalized = IF ~c.blank_pending /\ @ # <<>> THEN Append(@, "") ELSE @,
                       !.blank_pending = TRUE, !.k = @ + 1]
        ELSE [c EXCEPT !.normalized = Append(@, c.paragraphs[c.k + 1]),
                       !.blank_pending = FALSE, !.k = @ + 1]
    ELSE IF c.pc = "collapse" THEN [c EXCEPT !.result = Assemble(c.normalized), !.pc = "done"]
    ELSE c

\* PeerStep with one buffer for both calls: the second call appends to and
\* flushes the block of the first
PeerStepSharedBlock ==
    /\ peer.pc \in {"scan", "collapse"}
    /\ peer' = CallStep([peer EXCEPT !.block = block])
    /\ block' = peer'.block
    /\ UNCHANGED <<text, indent, width, lines, i, paragraphs, flushed,
                   normalized, blank_pending, k, result, pc>>
    /\ UNCHANGED <<digVars, parseVars, toolVars>>

\* a step of the second call
PeerStep ==
    /\ peer.pc \in {"scan", "collapse"}
    /\ peer' = CallStep(peer)
    /\ UNCHANGED <<text, indent, width, lines, i, block, paragraphs, flushed,
                   normalized, blank_pending, k, result, pc>>
    /\ UNCHANGED <<digVars, parseVars, toolVars>>

InitTwoCalls ==
    /\ Enter(CallTexts, 1..MaxWidth)
    /\ peer \in {Call(t, ind, MaxWidth) : t \in PeerTexts, ind \in 0..MaxIndent}
    /\ DigIdle /\ ParseIdle /\ ToolsIdle

NextTwoCalls ==
    \/ ScanBlank
    \/ ScanBullet
    \/ ScanPlain
    \/ FinalFlush
    \/ CollapseBlank
    \/ CollapsePara
    \/ Return
    \/ PeerStep

SpecTwoCalls == InitTwoCalls /\ [][NextTwoCalls]_vars

(***************************************************************************)
(* dig.py: _sanitize_msgid and download_and_combine_threads.  The archive  *)
(* (b4.get_pi_thread_by_msgid) is the environment: a call raises, returns  *)
(* nothing, or returns the thread the archive holds for the id.  A message *)
(* is a record of what the function reads of it: id, the value of          *)
(* b4.LoreMessage.get_clean_msgid ("" when it has none), and date, the     *)
(* value of _sort_key (0 for a Date that does not parse).                  *)
(***************************************************************************)
MaxRelated == 2

\* _sanitize_msgid: '' for None and '', else strip, one leading '<' and one
\* trailing '>' removed, strip
Sanitize(raw) ==
    IF raw = "" THEN ""
    ELSE LET a == Strip(raw)
             b == IF StartsWith(a, "<") THEN Drop(a, 1) ELSE a
             c == IF EndsWith(b, ">") THEN SubSeq(b, 1, Len(b) - 1) ELSE b
         IN  Strip(c)

Message(id, date) == [id |-> id, date |-> date]

\* the thread the archive holds for a message-id, <<>> for an id it does not
\* know; r@b is in two threads, and one message has no Message-Id
Thread(id) ==
    CASE id = "a@b" -> <<Message("a@b", 2), Message("r@b", 3)>>
      [] id = "c@d" -> <<Message("r@b", 3), Message("c@d", 1), Message("", 0)>>
      [] OTHER -> <<>>

\* message-ids as callers and agents write them; "" also stands for a missing
\* 'msgid' key (item.get('msgid') is None)
RawIds == { "a@b", "<a@b>", " c@d", "<c@d> ", "x@y", "", "<>" }

\* an element of related_messages: a dict with a 'msgid', or something else
Item(raw) == [isdict |-> TRUE, msgid |-> raw]

NotADict == [isdict |-> FALSE, msgid |-> ""]

Items == {Item(raw) : raw \in RawIds} \cup {NotADict}

RECURSIVE ItemSeqs(_)
ItemSeqs(n) ==
    IF n = 0 THEN {<<>>}
    ELSE {<<>>} \cup {<<it>> \o rest : it \in Items, rest \in ItemSeqs(n - 1)}

RECURSIVE DictMsgids(_)
\* line 503: [item.get('msgid') for item in related_messages if isinstance(item, dict)]
DictMsgids(items) ==
    IF items = <<>> THEN <<>>
    ELSE (IF items[1].isdict THEN <<items[1].msgid>> ELSE <<>>) \o DictMsgids(Tail(items))

\* line 503: the candidates of _unique_msgids, the original first
Candidates == <<msgid>> \o DictMsgids(related_messages)

RECURSIVE KeepAll(_, _)
\* KeepNew without the test against seen_msgids
KeepAll(msgs, ids) ==
    IF msgs = <<>> THEN <<>>
    ELSE IF msgs[1].id = "" THEN KeepAll(Tail(msgs), ids)
    ELSE <<msgs[1]>> \o KeepAll(Tail(msgs), ids)

RECURSIVE KeepNew(_, _)
\* lines 521-526: the messages of msgs that are appended, ids being seen_msgids
KeepNew(msgs, ids) ==
    IF msgs = <<>> THEN <<>>
    ELSE IF msgs[1].id = "" \/ msgs[1].id \in ids THEN KeepNew(Tail(msgs), ids)
    ELSE <<msgs[1]>> \o KeepNew(Tail(msgs), ids \cup {msgs[1].id})

RECURSIVE InsertByDate(_, _)
\* m put after the messages that are not later than it
InsertByDate(m, sorted) ==
    IF sorted = <<>> THEN <<m>>
    ELSE IF m.date < sorted[1].date THEN <<m>> \o sorted
    ELSE <<sorted[1]>> \o InsertByDate(m, Tail(sorted))

RECURSIVE SortByDate(_)
\* line 541: list.sort(key=_sort_key), which is stable
SortByDate(msgs) ==
    IF msgs = <<>> THEN <<>>
    ELSE InsertByDate(msgs[Len(msgs)], SortByDate(SubSeq(msgs, 1, Len(msgs) - 1)))

IdsOf(msgs) == {msgs[n].id : n \in 1..Len(msgs)}

InitDig ==
    /\ StyleIdle /\ ParseIdle /\ ToolsIdle
    /\ msgid \in RawIds
    /\ related_messages \in ItemSeqs(MaxRelated)
    /\ cand = 0
    /\ seen_local = {} /\ seen_msgids = {} /\ all_messages = <<>>
    /\ fetch_calls = <<>> /\ fetched = <<>> /\ total_messages = 0
    /\ mbox = NoFile /\ dpc = "fetch"

\* lines 504-506: an empty or already seen candidate is passed over
SkipCandidate ==
    /\ dpc = "fetch" /\ cand < Len(Candidates)
    /\ LET clean == Sanitize(Candidates[cand + 1])
       IN  clean = "" \/ clean \in seen_local
    /\ cand' = cand + 1
    /\ UNCHANGED <<msgid, related_messages, seen_local, seen_msgids, all_messages,
                   fetch_calls, fetched, total_messages, mbox, dpc>>
    /\ UNCHANGED <<styleVars, parseVars, toolVars>>

\* lines 514-523: the call raises or returns no messages
FetchFails ==
    /\ dpc = "fetch" /\ cand < Len(Candidates)
    /\ LET clean == Sanitize(Candidates[cand + 1])
       IN  /\ clean # "" /\ clean \notin seen_local
           /\ seen_local' = seen_local \cup {clean}
           /\ fetch_calls' = Append(fetch_calls, clean)
    /\ fetched' = Append(fetched, <<>>)
    /\ cand' = cand + 1
    /\ UNCHANGED <<msgid, related_messages, seen_msgids, all_messages,
                   total_messages, mbox, dpc>>
    /\ UNCHANGED <<styleVars, parseVars, toolVars>>

\* lines 514-527: the call returns the thread and its new messages are kept
FetchThread ==
    /\ dpc = "fetch" /\ cand < Len(Candidates)
    /\ LET clean == Sanitize(Candidates[cand + 1])
           kept == KeepNew(Thread(clean), seen_msgids)
       IN  /\ clean # "" /\ clean \notin seen_local
           /\ Thread(clean) # <<>>
           /\ seen_local' = seen_local \cup {clean}
           /\ fetch_calls' = Append(fetch_calls, clean)
           /\ fetched' = Append(fetched, Thread(clean))
           /\ all_messages' = all_messages \o kept
           /\ seen_msgids' = seen_msgids \cup IdsOf(kept)
    /\ cand' = cand + 1
    /\ UNCHANGED <<msgid, related_messages, total_messages, mbox, dpc>>
    /\ UNCHANGED <<styleVars, parseVars, toolVars>>

\* lines 541-558: sort, write the mbox when there is a message, return the count
SortAndWrite ==
    /\ dpc = "fetch" /\ cand = Len(Candidates)
    /\ all_messages' = SortByDate(all_messages)
    /\ total_messages' = Len(all_messages)
    /\ mbox' = IF Len(all_messages) > 0
               THEN [exists |-> TRUE, messages |-> SortByDate(all_messages)]
               ELSE NoFile
    /\ dpc' = "done"
    /\ UNCHANGED <<msgid, related_messages, cand, seen_local, seen_msgids,
                   fetch_calls, fetched>>
    /\ UNCHANGED <<styleVars, parseVars, toolVars>>

NextDig ==
    \/ SkipCandidate
    \/ FetchFails
    \/ FetchThread
    \/ SortAndWrite

SpecDig == InitDig /\ [][NextDig]_vars

(***************************************************************************)
(* dig.py: parse_agent_response.  json.loads is modelled by what it does   *)
(* on the characters of the responses: arrays, objects, strings, integers  *)
(* and null/true/false, with whitespace between the tokens and nothing     *)
(* after the value.  The responses of the model hold no backslash, sign,   *)
(* fraction or exponent, so escapes and the other number forms are left    *)
(* out of the scanner.                                                     *)
(***************************************************************************)
Quote == "\""

JStr(str) == JValue("str", str, <<>>)

JNum(str) == JValue("num", str, <<>>)

JArr(items) == JValue("arr", "", items)

JObj(pairs) == JValue("obj", "", pairs)

JPair(key, val) == JValue("pair", key, <<val>>)

\* the outcome of a scan from a position: the value and the position after
\* it, or a JSONDecodeError
Parsed(val, pos) == [ok |-> TRUE, val |-> val, pos |-> pos]

DecodeError == [ok |-> FALSE, val |-> JNull, pos |-> 0]

RECURSIVE SkipSpace(_, _)
\* json.decoder.WHITESPACE.match(s, p).end()
SkipSpace(s, p) ==
    IF p <= Len(s) /\ Ch(s, p) \in Whitespace THEN SkipSpace(s, p + 1) ELSE p

RECURSIVE StringEnd(_, _)
\* the place of the quote that ends the string whose text starts at p; 0
\* when there is none or a control character comes first (strict mode)
StringEnd(s, p) ==
    IF p > Len(s) THEN 0
    ELSE IF Ch(s, p) = Quote THEN p
    ELSE IF Ch(s, p) \in {"\n", "\t"} THEN 0
    ELSE StringEnd(s, p + 1)

\* py_scanstring, s[p] being the opening quote
ScanString(s, p) ==
    LET e == StringEnd(s, p + 1)
    IN  IF e = 0 THEN DecodeError ELSE Parsed(JStr(SubSeq(s, p + 1, e - 1)), e + 1)

RECURSIVE DigitsEnd(_, _)
DigitsEnd(s, p) ==
    IF p <= Len(s) /\ Ch(s, p) \in Digits THEN DigitsEnd(s, p + 1) ELSE p

\* NUMBER_RE for an integer without sign: 0 | [1-9][0-9]*
ScanNumber(s, p) ==
    IF Ch(s, p) = "0" THEN Parsed(JNum("0"), p + 1)
    ELSE Parsed(JNum(SubSeq(s, p, DigitsEnd(s, p) - 1)), DigitsEnd(s, p))

StartsAt(s, p, word) ==
    p + Len(word) - 1 <= Len(s) /\ SubSeq(s, p, p + Len(word) - 1) = word

RECURSIVE ScanOnce(_, _)
RECURSIVE ScanElements(_, _, _)
RECURSIVE ScanMembers(_, _, _)
\* json.scanner.py_make_scanner._scan_once at position p
ScanOnce(s, p) ==
    IF p > Len(s) THEN DecodeError
    ELSE IF Ch(s, p) = Quote THEN ScanString(s, p)
    ELSE IF Ch(s, p) = "{" THEN
        LET q == SkipSpace(s, p + 1)
        IN  IF q <= Len(s) /\ Ch(s, q) = "}" THEN Parsed(JObj(<<>>), q + 1)
            ELSE ScanMembers(s, q, <<>>)
    ELSE IF Ch(s, p) = "[" THEN
        LET q == SkipSpace(s, p + 1)
        IN  IF q <= Len(s) /\ Ch(s, q) = "]" THEN Parsed(JArr(<<>>), q + 1)
            ELSE ScanElements(s, q, <<>>)
    ELSE IF StartsAt(s, p, "null") THEN Parsed(JNull, p + 4)
    ELSE IF StartsAt(s, p, "true") THEN Parsed(JValue("true", "", <<>>), p + 4)
    ELSE IF StartsAt(s, p, "false") THEN Parsed(JValue("false", "", <<>>), p + 5)
    ELSE IF Ch(s, p) \in Digits THEN ScanNumber(s, p)
    ELSE DecodeError

\* json.decoder.JSONArray from the value at p on, acc the values before it
ScanElements(s, p, acc) ==
    LET r == ScanOnce(s, p)
        q == SkipSpace(s, r.pos)
    IN  IF ~r.ok \/ q > Len(s) THEN DecodeError
        ELSE IF Ch(s, q) = "]" THEN Parsed(JArr(Append(acc, r.val)), q + 1)
        ELSE IF Ch(s, q) = "," THEN ScanElements(s, SkipSpace(s, q + 1), Append(acc, r.val))
        ELSE DecodeError

\* json.decoder.JSONObject from the key at p on, acc the pairs before it
ScanMembers(s, p, acc) ==
    IF p > Len(s) \/ Ch(s, p) # Quote THEN DecodeError
    ELSE LET key == ScanString(s, p)
             colon == SkipSpace(s, key.pos)
         IN  IF ~key.ok \/ colon > Len(s) \/ Ch(s, colon) # ":" THEN DecodeError
             ELSE LET r == ScanOnce(s, SkipSpace(s, colon + 1))
                      q == SkipSpace(s, r.pos)
                      pairs == Append(acc, JPair(key.val.s, r.val))
                  IN  IF ~r.ok \/ q > Len(s) THEN DecodeError
                      ELSE IF Ch(s, q) = "}" THEN Parsed(JObj(pairs), q + 1)
                      ELSE IF Ch(s, q) = "," THEN ScanMembers(s, SkipSpace(s, q + 1), pairs)
                      ELSE DecodeError

\* json.loads: the value, with nothing but whitespace before and after it
JsonLoads(s) ==
    LET r == ScanOnce(s, SkipSpace(s, 1))
    IN  IF r.ok /\ SkipSpace(s, r.pos) = Len(s) + 1 THEN r ELSE DecodeError

RECURSIVE Find(_, _, _)
\* str.find(c) as a position from p on, 0 when absent
Find(s, c, p) ==
    IF p > Len(s) THEN 0 ELSE IF Ch(s, p) = c THEN p ELSE Find(s, c, p + 1)

RECURSIVE RFind(_, _, _)
\* str.rfind(c) as a position from p down, 0 when absent
RFind(s, c, p) ==
    IF p < 1 THEN 0 ELSE IF Ch(s, p) = c THEN p ELSE RFind(s, c, p - 1)

\* lines 452-465: data after the attempts on the whole response and on the
\* fragment from the first '[' to the last ']'
LoadData(resp) ==
    LET stripped == Strip(resp)
        whole == JsonLoads(stripped)
        start == Find(stripped, "[", 1)
        end == RFind(stripped, "]", Len(stripped))
        fragment == JsonLoads(SubSeq(stripped, start, end))
    IN  IF stripped = "" THEN JNull
        ELSE IF whole.ok THEN whole.val
        ELSE IF start # 0 /\ end # 0 /\ end > start /\ fragment.ok THEN fragment.val
        ELSE JNull

UpperCase == "ABCDEFGHIJKLMNOPQRSTUVWXYZ"

LowerCase == "abcdefghijklmnopqrstuvwxyz"

Letters == {Ch(UpperCase, n) : n \in 1..Len(UpperCase)}
           \cup {Ch(LowerCase, n) : n \in 1..Len(LowerCase)}

RECURSIVE Lower(_)
\* str.lower()
Lower(str) ==
    IF str = "" THEN ""
    ELSE LET c == Ch(str, 1)
             up == {n \in 1..Len(UpperCase) : Ch(UpperCase, n) = c}
         IN  (IF up = {} THEN c ELSE Ch(LowerCase, CHOOSE n \in up : TRUE))
             \o Lower(Drop(str, 1))

\* the truth value Python gives a decoded value (in `not raw`, `x or y`)
Truthy(v) ==
    CASE v.t = "str" -> v.s # ""
      [] v.t = "num" -> v.s # "0"
      [] v.t = "true" -> TRUE
      [] v.t \in {"arr", "obj"} -> v.kids # <<>>
      [] OTHER -> FALSE

RECURSIVE DictGet(_, _)
\* dict.get(key) of a decoded object: the value of the last pair with the
\* key, None without one
DictGet(pairs, key) ==
    IF pairs = <<>> THEN JNull
    ELSE IF pairs[Len(pairs)].s = key THEN pairs[Len(pairs)].kids[1]
    ELSE DictGet(SubSeq(pairs, 1, Len(pairs) - 1), key)

\* an element of related
Entry3(id, relationship, reason) ==
    [msgid |-> id, relationship |-> relationship, reason |-> reason]

\* the state of _append's closure: related, seen, and whether a call raised
Appended(rel, ids, raised) == [related |-> rel, seen |-> ids, raised |-> raised]

\* _append(msgid, relationship, reason), lines 438-448, from the state st:
\* .strip() of a value that is not a str raises AttributeError
AppendOne(st, id, relationship, reason) ==
    IF Truthy(id) /\ id.t # "str" THEN [st EXCEPT !.raised = TRUE]
    ELSE LET clean_msgid == IF Truthy(id) THEN Sanitize(id.s) ELSE ""
         IN  IF clean_msgid = "" \/ clean_msgid \in st.seen THEN st
             ELSE IF \/ Truthy(relationship) /\ relationship.t # "str"
                     \/ Truthy(reason) /\ reason.t # "str"
                  THEN [st EXCEPT !.raised = TRUE, !.seen = @ \cup {clean_msgid}]
             ELSE LET rel == IF Truthy(relationship) /\ Strip(relationship.s) # ""
                             THEN Strip(relationship.s) ELSE "related"
                      why == IF Truthy(reason) THEN Strip(reason.s)
                             ELSE "No reason provided"
                  IN  Appended(Append(st.related, Entry3(clean_msgid, Lower(rel), why)),
                               st.seen \cup {clean_msgid}, FALSE)

RECURSIVE AppendItemsFrom(_, _)
\* lines 467-470: the loop over the items of a decoded list; it ends at the
\* first call that raises
AppendItemsFrom(items, st) ==
    IF items = <<>> \/ st.raised THEN st
    ELSE IF items[1].t = "obj"
         THEN AppendItemsFrom(Tail(items),
                  AppendOne(st, DictGet(items[1].kids, "msgid"),
                            DictGet(items[1].kids, "relationship"),
                            DictGet(items[1].kids, "reason")))
    ELSE AppendItemsFrom(Tail(items), st)

\* _MSGID_FALLBACK_RE (line 27): [0-9A-Za-z][^\s<>@]*@[0-9A-Za-z][^\s<>@]*
AlNum == Digits \cup Letters

Excluded == Whitespace \cup {"<", ">", "@"}

RECURSIVE RunEnd(_, _)
\* where a greedy [^\s<>@]* that starts at p stops
RunEnd(s, p) ==
    IF p <= Len(s) /\ Ch(s, p) \notin Excluded THEN RunEnd(s, p + 1) ELSE p

\* the end (exclusive) of the match that starts at p, 0 without a match; the
\* first run cannot give characters back, what follows it must be the '@'
MatchEnd(s, p) ==
    LET at == RunEnd(s, p + 1)
    IN  IF /\ Ch(s, p) \in AlNum
           /\ at < Len(s) /\ Ch(s, at) = "@" /\ Ch(s, at + 1) \in AlNum
        THEN RunEnd(s, at + 2) ELSE 0

\* the places from p on where a match starts
MatchStarts(s, p) == {n \in p..Len(s) : MatchEnd(s, n) > 0}

RECURSIVE FindIter(_, _)
\* finditer: the matches from p on, leftmost first, none overlapping
FindIter(s, p) ==
    IF MatchStarts(s, p) = {} THEN <<>>
    ELSE LET first == CHOOSE n \in MatchStarts(s, p) : \A m \in MatchStarts(s, p) : n <= m
         IN  <<SubSeq(s, first, MatchEnd(s, first) - 1)>> \o FindIter(s, MatchEnd(s, first))

RECURSIVE AppendMatches(_, _)
\* lines 473-474: _append(match, 'related', 'Found in agent response')
AppendMatches(matches, st) ==
    IF matches = <<>> THEN st
    ELSE AppendMatches(Tail(matches),
             AppendOne(st, JStr(matches[1]), JStr("related"), JStr("Found in agent response")))

\* UseFallback whatever the JSON path gave
UseFallbackAlways(rel) == TRUE

\* line 472: if not related
UseFallback(rel) == rel = <<>>

(***************************************************************************)
(* The responses: what an agent writes is text, a JSON value, text.  The   *)
(* value is written the way json.dumps writes it.                          *)
(***************************************************************************)
MaxItems == 2

RECURSIVE RenderValue(_)
RECURSIVE RenderKids(_)
\* the JSON text of a value
RenderValue(v) ==
    CASE v.t = "str" -> Quote \o v.s \o Quote
      [] v.t = "num" -> v.s
      [] v.t = "arr" -> "[" \o RenderKids(v.kids) \o "]"
      [] v.t = "obj" -> "{" \o RenderKids(v.kids) \o "}"
      [] v.t = "pair" -> Quote \o v.s \o Quote \o ": " \o RenderValue(v.kids[1])
      [] OTHER -> v.t

RenderKids(kids) ==
    IF kids = <<>> THEN ""
    ELSE IF Len(kids) = 1 THEN RenderValue(kids[1])
    ELSE RenderValue(kids[1]) \o ", " \o RenderKids(Tail(kids))

\* the items an agent lists: a full entry in brackets and capitals, the same
\* id bare, an entry with padded fields, an empty msgid, a number in place
\* of an object, a null msgid with an id in the reason, a number as msgid
ItemChoices ==
    { JObj(<<JPair("msgid", JStr("<a@b>")), JPair("relationship", JStr("Parent")),
             JPair("reason", JStr("r"))>>),
      JObj(<<JPair("msgid", JStr("a@b"))>>),
      JObj(<<JPair("msgid", JStr(" c@d ")), JPair("relationship", JStr(" ")),
             JPair("reason", JStr(" s "))>>),
      JObj(<<JPair("msgid", JStr(""))>>),
      JNum("7"),
      JObj(<<JPair("msgid", JNull), JPair("reason", JStr("e@f"))>>),
      JObj(<<JPair("msgid", JNum("7"))>>) }

RECURSIVE ItemLists(_)
ItemLists(n) ==
    IF n = 0 THEN {<<>>}
    ELSE {<<>>} \cup {<<it>> \o rest : it \in ItemChoices, rest \in ItemLists(n - 1)}

\* a list of items, or an object that wraps a list
Bodies ==
    {JArr(items) : items \in ItemLists(MaxItems)}
    \cup {JObj(<<JPair("related", JArr(<<JObj(<<JPair("msgid", JStr("a@b"))>>)>>))>>)}

\* the text before the value, one with a bracketed reference, and after it
Pres == { "", "x\n", "[1] " }

Posts == { "", "\ny" }

\* responses without JSON
PlainTexts == { "", " ", "a@b and <a@b> plus c@d", "a@b@c -d@e f@ @g h@-i <j@k>x@y a@b." }

Sents ==
    {[pre |-> pre, body |-> body, post |-> post] :
        pre \in Pres, body \in Bodies, post \in Posts}
    \cup {[pre |-> t, body |-> JNull, post |-> ""] : t \in PlainTexts}

\* the text of what the agent wrote
Compose(m) ==
    m.pre \o (IF m.body = JNull THEN "" ELSE RenderValue(m.body)) \o m.post

InitParse ==
    /\ StyleIdle /\ DigIdle /\ ToolsIdle
    /\ sent \in Sents
    /\ response = Compose(sent)
    /\ data = JNull /\ related = <<>> /\ seen = {} /\ from_json = <<>>
    /\ fell_back = FALSE /\ ppc = "load"

\* lines 449-450: an empty response returns at once
ReturnEmpty ==
    /\ ppc = "load" /\ response = ""
    /\ ppc' = "done"
    /\ UNCHANGED <<sent, response, data, related, seen, from_json, fell_back>>
    /\ UNCHANGED <<styleVars, digVars, toolVars>>

\* lines 452-465
LoadJson ==
    /\ ppc = "load" /\ response # ""
    /\ data' = LoadData(response)
    /\ ppc' = "items"
    /\ UNCHANGED <<sent, response, related, seen, from_json, fell_back>>
    /\ UNCHANGED <<styleVars, digVars, toolVars>>

\* the state _append leaves after the loop of lines 467-470
AfterItems ==
    IF data.t = "arr" THEN AppendItemsFrom(data.kids, Appended(related, seen, FALSE))
    ELSE Appended(related, seen, FALSE)

\* lines 467-470
AppendItems ==
    /\ ppc = "items" /\ ~AfterItems.raised
    /\ related' = AfterItems.related
    /\ seen' = AfterItems.seen
    /\ from_json' = AfterItems.related
    /\ ppc' = "fallback"
    /\ UNCHANGED <<sent, response, data, fell_back>>
    /\ UNCHANGED <<styleVars, digVars, toolVars>>

\* lines 467-470, a field that is not a str: the AttributeError leaves
\* parse_agent_response
ItemsRaise ==
    /\ ppc = "items" /\ AfterItems.raised
    /\ ppc' = "raised"
    /\ UNCHANGED <<sent, response, data, related, seen, from_json, fell_back>>
    /\ UNCHANGED <<styleVars, digVars, toolVars>>

\* lines 472-476: the regular expression is tried on the response
Fallback ==
    /\ ppc = "fallback" /\ UseFallback(related)
    /\ LET st == AppendMatches(FindIter(response, 1), Appended(related, seen, FALSE))
       IN  related' = st.related /\ seen' = st.seen
    /\ fell_back' = TRUE
    /\ ppc' = "done"
    /\ UNCHANGED <<sent, response, data, from_json>>
    /\ UNCHANGED <<styleVars, digVars, toolVars>>

\* lines 472, 476: related is returned as the JSON path left it
ReturnRelated ==
    /\ ppc = "fallback" /\ ~UseFallback(related)
    /\ ppc' = "done"
    /\ UNCHANGED <<sent, response, data, related, seen, from_json, fell_back>>
    /\ UNCHANGED <<styleVars, digVars, toolVars>>

NextParse ==
    \/ ReturnEmpty
    \/ LoadJson
    \/ AppendItems
    \/ ItemsRaise
    \/ Fallback
    \/ ReturnRelated

SpecParse == InitParse /\ [][NextParse]_vars

(***************************************************************************)
(* The message-id sanitizers: sanitize_msgid (ai.py) and _sanitize_msgid   *)
(* (dig.py), two copies of the same code.  A call takes an Optional[str]   *)
(* and returns a str.                                                      *)
(***************************************************************************)
MaxIdLen == 3

\* the state outside the call of a helper
notHelper == <<styleVars, digVars, parseVars, agentVars, mainVars>>

\* nothing goes on outside the call of a helper
OnlyHelper == StyleIdle /\ DigIdle /\ ParseIdle /\ AgentIdle /\ MainIdle

\* sanitize_msgid of ai.py; the str of None is "", and 'not raw' holds of
\* both None and ''
SanitizeMsgid(raw) ==
    IF raw = "" THEN ""
    ELSE LET a == Strip(raw)
             b == IF StartsWith(a, "<") THEN Drop(a, 1) ELSE a
             c == IF EndsWith(b, ">") THEN SubSeq(b, 1, Len(b) - 1) ELSE b
         IN  Strip(c)

RECURSIVE StringsOver(_, _)
\* the strings of at most n characters taken from chars
StringsOver(chars, n) ==
    IF n = 0 THEN {""}
    ELSE {""} \cup {c \o rest : c \in chars, rest \in StringsOver(chars, n - 1)}

\* what a message-id is made of, as far as the sanitizers look at it
IdChars == {" ", "<", ">", "a"}

RawMsgids == {None} \cup {Some(str) : str \in StringsOver(IdChars, MaxIdLen)}

Sanitizers == {"sanitize_msgid", "_sanitize_msgid"}

InitSanitize ==
    /\ OnlyHelper
    /\ fn \in Sanitizers
    /\ arg \in RawMsgids
    /\ ret = None
    /\ fpc = "called"

\* ai.py lines 23-34
SanitizeMsgidReturn ==
    /\ fpc = "called" /\ fn = "sanitize_msgid"
    /\ ret' = Some(SanitizeMsgid(arg.str))
    /\ fpc' = "returned"
    /\ UNCHANGED <<fn, arg>>
    /\ UNCHANGED notHelper

\* dig.py lines 32-43
SanitizeReturn ==
    /\ fpc = "called" /\ fn = "_sanitize_msgid"
    /\ ret' = Some(Sanitize(arg.str))
    /\ fpc' = "returned"
    /\ UNCHANGED <<fn, arg>>
    /\ UNCHANGED notHelper

NextSanitize ==
    \/ SanitizeMsgidReturn
    \/ SanitizeReturn

SpecSanitize == InitSanitize /\ [][NextSanitize]_vars

(***************************************************************************)
(* The normalizers of the agent's text: normalize_output (style.py) and    *)
(* normalize_cover (cover.py).  They differ in what is stripped from both  *)
(* ends: newlines, or any whitespace.                                      *)
(***************************************************************************)
MaxNormLines == 4

Newline == {"\n"}

\* str.strip(chars)
StripSet(s, cs) == RStripSet(LStripSet(s, cs), cs)

RECURSIVE PopFirstFences(_)
\* while lines and lines[0].startswith(fence): lines.pop(0)
PopFirstFences(ls) ==
    IF ls # <<>> /\ StartsWith(ls[1], Fence) THEN PopFirstFences(Tail(ls)) ELSE ls

RECURSIVE PopLastFences(_)
\* while lines and lines[-1].startswith(fence): lines.pop()
PopLastFences(ls) ==
    IF ls # <<>> /\ StartsWith(ls[Len(ls)], Fence)
    THEN PopLastFences(SubSeq(ls, 1, Len(ls) - 1)) ELSE ls

\* the body the normalizers share: stripped is the text stripped of cs
Unfenced(stripped, cs) ==
    IF StartsWith(stripped, Fence)
    THEN StripSet(Join(PopLastFences(PopFirstFences(SplitLines(stripped))), "\n"), cs)
    ELSE stripped

\* normalize_output: strip('\n')
NormalizeOutput(output) == Unfenced(StripSet(output, Newline), Newline) \o "\n"

\* normalize_cover: strip()
NormalizeCover(t) == Unfenced(Strip(t), Whitespace) \o "\n"

\* the lines of an agent's text: blank, of spaces, a word, a fence, a fence
\* with a language tag
NormLineSet == {"", " ", "x", Fence, Fence \o "x"}

AgentTexts == {Join(ls, "\n") : ls \in LineSeqs(NormLineSet, MaxNormLines)}

Normalizers == {"normalize_output", "normalize_cover"}

InitNormalize ==
    /\ OnlyHelper
    /\ fn \in Normalizers
    /\ arg \in {Some(t) : t \in AgentTexts}
    /\ ret = None
    /\ fpc = "called"

\* style.py lines 185-194
NormalizeOutputReturn ==
    /\ fpc = "called" /\ fn = "normalize_output"
    /\ ret' = Some(NormalizeOutput(arg.str))
    /\ fpc' = "returned"
    /\ UNCHANGED <<fn, arg>>
    /\ UNCHANGED notHelper

\* cover.py lines 244-253
NormalizeCoverReturn ==
    /\ fpc = "called" /\ fn = "normalize_cover"
    /\ ret' = Some(NormalizeCover(arg.str))
    /\ fpc' = "returned"
    /\ UNCHANGED <<fn, arg>>
    /\ UNCHANGED notHelper

NextNormalize ==
    \/ NormalizeOutputReturn
    \/ NormalizeCoverReturn

SpecNormalize == InitNormalize /\ [][NextNormalize]_vars

(***************************************************************************)
(* call_agent: ai.py lines 70-113 with _resolve_agent_command (lines       *)
(* 37-67), and dig.py lines 359-429, where the same resolution is written  *)
(* inline.  The file system, the temporary file and the agent process are  *)
(* the environment: creating the file, writing it and running the process  *)
(* end normally or raise.                                                  *)
(***************************************************************************)
MaxCmdLen == 3

SingleQuote == "'"

BackSlash == "\\"

\* the value of shlex.split: its list, or the ValueError it raised
ShlexOk(parts) == [ok |-> TRUE, parts |-> parts]

ShlexError == [ok |-> FALSE, parts |-> <<>>]

RECURSIVE ShlexFrom(_, _, _, _, _)
\* the POSIX lexer of shlex from position p on: state is "sp" between
\* words, "a" in a word, "sq" or "dq" in quotes, "esc" after a backslash in
\* a word, "escdq" after a backslash in double quotes
ShlexFrom(s, p, state, token, parts) ==
    IF p > Len(s)
    THEN CASE state = "sp" -> ShlexOk(parts)
           [] state = "a" -> ShlexOk(Append(parts, token))
           [] OTHER -> ShlexError
    ELSE LET c == Ch(s, p)
         IN  CASE state \in {"sp", "a"} /\ c \in Whitespace ->
                      ShlexFrom(s, p + 1, "sp", "",
                                IF state = "a" THEN Append(parts, token) ELSE parts)
               [] state \in {"sp", "a"} /\ c = SingleQuote ->
                      ShlexFrom(s, p + 1, "sq", token, parts)
               [] state \in {"sp", "a"} /\ c = Quote ->
                      ShlexFrom(s, p + 1, "dq", token, parts)
               [] state \in {"sp", "a"} /\ c = BackSlash ->
                      ShlexFrom(s, p + 1, "esc", token, parts)
               [] state \in {"sp", "a"} /\ c \notin Whitespace \cup {SingleQuote, Quote, BackSlash} ->
                      ShlexFrom(s, p + 1, "a", token \o c, parts)
               [] state = "sq" /\ c = SingleQuote -> ShlexFrom(s, p + 1, "a", token, parts)
               [] state = "sq" /\ c # SingleQuote -> ShlexFrom(s, p + 1, "sq", token \o c, parts)
               [] state = "dq" /\ c = Quote -> ShlexFrom(s, p + 1, "a", token, parts)
               [] state = "dq" /\ c = BackSlash -> ShlexFrom(s, p + 1, "escdq", token, parts)
               [] state = "dq" /\ c \notin {Quote, BackSlash} ->
                      ShlexFrom(s, p + 1, "dq", token \o c, parts)
               [] state = "esc" -> ShlexFrom(s, p + 1, "a", token \o c, parts)
               [] state = "escdq" ->
                      ShlexFrom(s, p + 1, "dq",
                                IF c \in {Quote, BackSlash} THEN token \o c
                                ELSE token \o BackSlash \o c, parts)

\* shlex.split(s)
ShlexSplit(s) == ShlexFrom(s, 1, "sp", "", <<>>)

\* the home directory of the user
Home == "/h"

\* os.path.expanduser: a leading ~ alone or before a slash is the home
\* directory; ~name of an unknown user is left as it is
ExpandUser(path) ==
    IF StartsWith(path, "~") /\ (Len(path) = 1 \/ Ch(path, 2) = "/")
    THEN Home \o Drop(path, 1) ELSE path

\* os.path.sep in path
HasSep(path) == \E n \in 1..Len(path) : Ch(path, n) = "/"

RECURSIVE ComponentsAcc(_, _)
ComponentsAcc(path, cur) ==
    IF path = "" THEN (IF cur = "" THEN <<>> ELSE <<cur>>)
    ELSE IF Ch(path, 1) = "/"
         THEN (IF cur = "" THEN <<>> ELSE <<cur>>) \o ComponentsAcc(Drop(path, 1), "")
    ELSE ComponentsAcc(Drop(path, 1), cur \o Ch(path, 1))

\* the names between the slashes of a path
Components(path) == ComponentsAcc(path, "")

\* the directories: the root, the directory on PATH, the home directory
Dirs == {<<>>, <<"bin">>, <<"h">>}

\* the file an absolute path names, whatever its slashes
FileOf(path) == "/" \o Join(Components(path), "/")

IsDir(path) == StartsWith(path, "/") /\ Components(path) \in Dirs

\* path names an agent file that is there; nothing exists below the
\* working directory, and a file is not found under a name that ends in /
IsFile(f, path) ==
    /\ StartsWith(path, "/") /\ ~EndsWith(path, "/")
    /\ FileOf(path) \in AgentFiles
    /\ f.mode[FileOf(path)] # "none"

\* os.path.exists
Exists(f, path) == IsDir(path) \/ IsFile(f, path)

\* os.access(path, os.X_OK): a directory can be searched, a file run
Executable(f, path) ==
    IsDir(path) \/ (IsFile(f, path) /\ f.mode[FileOf(path)] = "exec")

\* shutil.which for a name without a slash, PATH being /bin: "" for None
Which(f, name) ==
    LET found == "/bin/" \o name
    IN  IF name # "" /\ found \in AgentFiles /\ f.mode[found] = "exec"
        THEN found ELSE ""

\* lines 51-67 of ai.py, 377-391 of dig.py: the executable is looked up;
\* <<>> stands for the None that is returned when it is not found
LookUp(f, parts) ==
    LET executable == ExpandUser(parts[1])
    IN  IF HasSep(executable)
        THEN IF ~Exists(f, executable) THEN <<>>
             ELSE IF ~Executable(f, executable) THEN <<>>
             ELSE [parts EXCEPT ![1] = executable]
        ELSE IF Which(f, parts[1]) = "" THEN <<>>
             ELSE [parts EXCEPT ![1] = Which(f, parts[1])]

\* _resolve_agent_command of ai.py (lines 37-67), and lines 362-391 of
\* dig.py: <<>> for None
ResolveAgentCommand(f, cmd) ==
    IF Strip(cmd) = "" THEN <<>>
    ELSE IF ~ShlexSplit(Strip(cmd)).ok THEN <<>>
    ELSE IF ShlexSplit(Strip(cmd)).parts = <<>> THEN <<>>
    ELSE LookUp(f, ShlexSplit(Strip(cmd)).parts)

\* the one name tempfile gives out during a call
TmpName == "/tmp/tmp1.txt"

TmpFile(name, content) == [name |-> name, content |-> content]

\* the classes of exception the try block can meet: the timeout of
\* subprocess.run, an OSError (no space, no permission, not a program), a
\* UnicodeError (a prompt or an output that cannot be coded); all are
\* subclasses of Exception
ExceptionClasses == {"TimeoutExpired", "OSError", "UnicodeError"}

\* raised by Ctrl-C while the agent runs: a BaseException, no Exception
Interrupts == {"KeyboardInterrupt"}

\* Handled with the clause 'except Exception' left out
HandledTimeoutOnly(exc) == exc = "TimeoutExpired"

\* lines 102-107: the except clauses take subprocess.TimeoutExpired and
\* every Exception, and return None
Handled(exc) == exc \in ExceptionClasses

\* what a command line is made of
CmdChars == {"a", "/", " ", "~", SingleQuote, BackSlash}

AgentCmds == StringsOver(CmdChars, MaxCmdLen)

Modes == {"none", "plain", "exec"}

FileSystems == {[mode |-> m, tmp |-> {}, made |-> 0] : m \in [AgentFiles -> Modes]}

\* what an agent prints: nothing, a text, a text within fences, or the
\* prompt it was given
Stdouts(p) == {"", "out\n", Fence \o "\nout\n" \o Fence \o "\n", p}

\* the state on entry of call_agent(p, cmd) of the module c
EnterAgent(c, p, cmd) ==
    /\ callee = c /\ prompt = p /\ agent_cmd = cmd
    /\ cmd_parts = <<>> /\ tmp_path = "" /\ runs = <<>> /\ proc = NoProc
    /\ returned = None /\ apc = "resolve"

InitAgent ==
    /\ StyleIdle /\ DigIdle /\ ParseIdle /\ FnIdle /\ MainIdle
    /\ fs \in FileSystems
    /\ \E c \in {"ai", "dig"}, cmd \in AgentCmds : EnterAgent(c, "p", cmd)

\* the state outside call_agent
notAgent == <<styleVars, digVars, parseVars, fnVars, mainVars>>

\* ai.py lines 73-75
ResolveAi ==
    /\ apc = "resolve" /\ callee = "ai"
    /\ cmd_parts' = ResolveAgentCommand(fs, agent_cmd)
    /\ apc' = IF cmd_parts' = <<>> THEN "done" ELSE "create"
    /\ UNCHANGED <<callee, prompt, agent_cmd, fs, tmp_path, runs, proc, returned>>
    /\ UNCHANGED notAgent

\* dig.py lines 362-391
ResolveDig ==
    /\ apc = "resolve" /\ callee = "dig"
    /\ cmd_parts' = IF Strip(agent_cmd) = "" THEN <<>>
                    ELSE IF ~ShlexSplit(Strip(agent_cmd)).ok THEN <<>>
                    ELSE IF ShlexSplit(Strip(agent_cmd)).parts = <<>> THEN <<>>
                    ELSE LookUp(fs, ShlexSplit(Strip(agent_cmd)).parts)
    /\ apc' = IF cmd_parts' = <<>> THEN "done" ELSE "create"
    /\ UNCHANGED <<callee, prompt, agent_cmd, fs, tmp_path, runs, proc, returned>>
    /\ UNCHANGED notAgent

\* line 78: NamedTemporaryFile(delete=False) creates an empty file
CreateTmp ==
    /\ apc = "create"
    /\ fs' = [fs EXCEPT !.tmp = @ \cup {TmpFile(TmpName, "")}, !.made = @ + 1]
    /\ apc' = "write"
    /\ UNCHANGED <<callee, prompt, agent_cmd, cmd_parts, tmp_path, runs, proc, returned>>
    /\ UNCHANGED notAgent

\* an exception exc leaves the try block: a handled one returns None
\* (lines 102-107), and the finally clause runs either way
Raised(exc) ==
    /\ proc' = [proc EXCEPT !.exc = exc]
    /\ returned' = None
    /\ apc' = "finally"

\* line 78 raises: no file could be created
CreateRaises ==
    /\ apc = "create"
    /\ Raised("OSError")
    /\ UNCHANGED <<callee, prompt, agent_cmd, fs, cmd_parts, tmp_path, runs>>
    /\ UNCHANGED notAgent

\* lines 79-80: the prompt is written, the name kept, the file closed
WritePrompt ==
    /\ apc = "write"
    /\ fs' = [fs EXCEPT !.tmp = {TmpFile(TmpName, prompt)}]
    /\ tmp_path' = TmpName
    /\ apc' = "run"
    /\ UNCHANGED <<callee, prompt, agent_cmd, cmd_parts, runs, proc, returned>>
    /\ UNCHANGED notAgent

\* line 79 raises: the with statement closes the file, line 80 is not
\* reached and tmp_path stays unbound
WriteRaises ==
    /\ apc = "write"
    /\ \E exc \in {"OSError", "UnicodeError"} : Raised(exc)
    /\ UNCHANGED <<callee, prompt, agent_cmd, fs, cmd_parts, tmp_path, runs>>
    /\ UNCHANGED notAgent

\* the temporary files left when the agent did, or did not, remove its
\* prompt file
TmpAfterRun(removes) == IF removes THEN {} ELSE fs.tmp

\* lines 82-100: the process ran to its end
RunCompleted ==
    /\ apc = "run"
    /\ IsFile(fs, cmd_parts[1])
    /\ \E rc \in {0, 1}, out \in Stdouts(prompt), removes \in BOOLEAN :
          /\ proc' = [returncode |-> rc, stdout |-> out, exc |-> ""]
          /\ returned' = IF rc # 0 THEN None ELSE Some(out)
          /\ fs' = [fs EXCEPT !.tmp = TmpAfterRun(removes)]
    /\ runs' = Append(runs, Append(cmd_parts, tmp_path))
    /\ apc' = "finally"
    /\ UNCHANGED <<callee, prompt, agent_cmd, cmd_parts, tmp_path>>
    /\ UNCHANGED notAgent

\* line 85 raises: the timeout, a directory or a file that is no program,
\* an output that is no text, or Ctrl-C
RunRaises ==
    /\ apc = "run"
    /\ \E exc \in ExceptionClasses \cup Interrupts, removes \in BOOLEAN :
          /\ IsDir(cmd_parts[1]) => exc = "OSError" /\ ~removes
          /\ Raised(exc)
          /\ fs' = [fs EXCEPT !.tmp = TmpAfterRun(removes)]
    /\ runs' = Append(runs, Append(cmd_parts, tmp_path))
    /\ UNCHANGED <<callee, prompt, agent_cmd, cmd_parts, tmp_path>>
    /\ UNCHANGED notAgent

\* lines 108-113: the file of tmp_path is unlinked, when tmp_path is bound;
\* the OSError of unlinking a file that is gone is passed over.  Then the
\* value is returned, or the exception that was not handled goes on
Finally ==
    /\ apc = "finally"
    /\ fs' = IF tmp_path # ""
             THEN [fs EXCEPT !.tmp = {t \in @ : t.name # tmp_path}] ELSE fs
    /\ apc' = IF proc.exc # "" /\ ~Handled(proc.exc) THEN "raised" ELSE "done"
    /\ UNCHANGED <<callee, prompt, agent_cmd, cmd_parts, tmp_path, runs, proc, returned>>
    /\ UNCHANGED notAgent

NextAgent ==
    \/ ResolveAi
    \/ ResolveDig
    \/ CreateTmp
    \/ CreateRaises
    \/ WritePrompt
    \/ WriteRaises
    \/ RunCompleted
    \/ RunRaises
    \/ Finally

SpecAgent == InitAgent /\ [][NextAgent]_vars

(***************************************************************************)
(* format_text as a function of its arguments: the same scan, collapse and *)
(* join, folded over the lines.  It is used where a claim applies          *)
(* format_text to a text other than the input of the run.                  *)
(***************************************************************************)
RECURSIVE ScanLines(_, _, _, _)
\* lines 96-107: the paragraphs produced from ls with blk pending
ScanLines(ls, blk, ind, wid) ==
    IF ls = <<>> THEN FlushBlock(blk, ind, wid)
    ELSE IF Strip(ls[1]) = ""
         THEN FlushBlock(blk, ind, wid) \o <<"">> \o ScanLines(Tail(ls), <<>>, ind, wid)
    ELSE IF IsBulletLine(ls[1])
         THEN FlushBlock(blk, ind, wid) \o FlushBlock(<<ls[1]>>, ind, wid)
              \o ScanLines(Tail(ls), <<>>, ind, wid)
    ELSE ScanLines(Tail(ls), Append(blk, ls[1]), ind, wid)

RECURSIVE Collapse(_, _, _)
\* lines 110-119: normalized after the loop, from norm and pending
Collapse(paras, norm, pending) ==
    IF paras = <<>> THEN norm
    ELSE IF paras[1] = ""
         THEN Collapse(Tail(paras), IF ~pending /\ norm # <<>> THEN Append(norm, "") ELSE norm, TRUE)
    ELSE Collapse(Tail(paras), Append(norm, paras[1]), FALSE)

FormatText(t, ind, wid) ==
    Assemble(Collapse(ScanLines(SplitLines(t), <<>>, ind, wid), <<>>, FALSE))

\* the run and the function agree
RunIsFormatText == pc = "done" => result = FormatText(text, indent, width)

(***************************************************************************)
(* main of style.py, lines 197-230, with resolve_agent (lines 124-134) and *)
(* build_prompt (lines 137-182).  The text read from the input is raw_text *)
(* from the start; call_agent is the machine above, entered at line 215.   *)
(***************************************************************************)
\* a value that is neither None nor ''
NonEmpty(opt) == ~opt.isnone /\ opt.str # ""

\* resolve_agent: the first of the options STYLE_AGENT and AGENT that is
\* given, and when that is missing or empty, the key style-agent of the
\* configuration or else its key agent
ResolveAgent(args, config) ==
    LET option == IF args.config.STYLE_AGENT # None THEN args.config.STYLE_AGENT
                  ELSE args.config.AGENT
    IN  IF NonEmpty(option) THEN option
        ELSE IF config.style_agent # None THEN config.style_agent
        ELSE config.agent

\* any(line.strip().endswith(':') for line in raw_text.splitlines() if line.strip())
HasHeader(t) ==
    \E n \in 1..Len(SplitLines(t)) : EndsWith(Strip(SplitLines(t)[n]), ":")

RECURSIVE SplitKeepAcc(_, _)
SplitKeepAcc(s, cur) ==
    IF s = "" THEN <<cur>>
    ELSE IF Ch(s, 1) = "\n" THEN <<cur>> \o SplitKeepAcc(Drop(s, 1), "")
    ELSE SplitKeepAcc(Drop(s, 1), cur \o Ch(s, 1))

\* the lines of a text, an empty last one included
SplitKeep(s) == SplitKeepAcc(s, "")

\* the spaces and tabs a line starts with
LeadingBlanks(line) == SubSeq(line, 1, Len(line) - Len(LStripSet(line, {" ", "\t"})))

RECURSIVE CommonPrefix(_, _)
CommonPrefix(a, b) ==
    IF a = "" \/ b = "" \/ Ch(a, 1) # Ch(b, 1) THEN ""
    ELSE Ch(a, 1) \o CommonPrefix(Drop(a, 1), Drop(b, 1))

RECURSIVE MarginFrom(_, _)
\* the margin of textwrap.dedent: the longest common prefix of the leading
\* blanks of the lines that hold more than blanks, starting from m
MarginFrom(ls, m) ==
    IF ls = <<>> THEN m
    ELSE IF LeadingBlanks(ls[1]) = ls[1] THEN MarginFrom(Tail(ls), m)
    ELSE MarginFrom(Tail(ls), CommonPrefix(m, LeadingBlanks(ls[1])))

RECURSIVE FirstFull(_)
\* the leading blanks of the first line that holds more than blanks
FirstFull(ls) ==
    IF ls = <<>> THEN ""
    ELSE IF LeadingBlanks(ls[1]) = ls[1] THEN FirstFull(Tail(ls))
    ELSE LeadingBlanks(ls[1])

\* textwrap.dedent, on the lines of the text: the margin is removed from
\* every line, and a line of blanks becomes empty
Dedent(ls) ==
    LET margin == MarginFrom(ls, FirstFull(ls))
    IN  [n \in 1..Len(ls) |->
            IF LeadingBlanks(ls[n]) = ls[n] THEN "" ELSE Drop(ls[n], Len(margin))]

\* the indentation of the lines of the f-string of lines 155-180
TemplateIndent == Spaces(8)

\* the lines of a value put into a line of the f-string: the first follows
\* the indentation of the template, the others start where they started
InterpolatedLines(ls) == <<TemplateIndent \o ls[1]>> \o Tail(ls)

Interpolated(v) == InterpolatedLines(SplitKeep(v))

\* the lines of header_hint, its sentences shortened: it was dedented and
\* stripped, so its lines start at the left edge
HeaderHint(t) ==
    IF HasHeader(t)
    THEN <<"Additional rule: if a line ends with a colon, treat it as a section header.",
           "Example:", "section:", "  - child item">>
    ELSE <<"">>

\* build_prompt, the sentences of its guidance shortened to those that
\* hold a value: the lines of the f-string, dedented, joined and stripped
BuildPrompt(t, ind, wid, ex) ==
    Strip(Join(Dedent(
        <<"",
          TemplateIndent \o "Formatting requirements:",
          TemplateIndent \o "- Wrap plain paragraphs so that no line exceeds "
                         \o ToString(wid) \o " characters.",
          TemplateIndent \o "- Apply "
                         \o (IF ind = 0 THEN "no additional indent"
                             ELSE ToString(ind) \o " leading space(s)")
                         \o " at the start of each wrapped paragraph line.",
          "">>
        \o InterpolatedLines(HeaderHint(t))
        \o <<"",
             TemplateIndent \o "Reference formatting example (for guidance only):",
             TemplateIndent \o "---">>
        \o Interpolated(Strip(ex))
        \o <<TemplateIndent \o "---",
             "",
             TemplateIndent \o "Reformat the following text accordingly and return only the reformatted text:",
             TemplateIndent \o Fence>>
        \o Interpolated(RStrip(t))
        \o <<TemplateIndent \o Fence,
             TemplateIndent>>), "\n"))

RECURSIVE ScanRaises(_, _, _)
\* lines 96-107 with the width wid: does one of the flushes raise
ScanRaises(ls, blk, wid) ==
    IF ls = <<>> THEN FlushRaises(blk, wid)
    ELSE IF Strip(ls[1]) = ""
         THEN FlushRaises(blk, wid) \/ ScanRaises(Tail(ls), <<>>, wid)
    ELSE IF IsBulletLine(ls[1])
         THEN \/ FlushRaises(blk, wid) \/ FlushRaises(<<ls[1]>>, wid)
              \/ ScanRaises(Tail(ls), <<>>, wid)
    ELSE ScanRaises(Tail(ls), Append(blk, ls[1]), wid)

\* format_text(t, ind, wid) raises the ValueError of textwrap
FormatTextRaises(t, wid) == ScanRaises(SplitLines(t), <<>>, wid)

\* Formatted giving out the example instead of the agent's text
FormattedIsExample(resp, ex) == ex

\* lines 220: what main writes, given the response and the example
Formatted(resp, ex) == NormalizeOutput(resp)

\* lines 222-230: the text goes to the file cmdargs.output, or to standard
\* output when no file is named
Write(out, path, t) ==
    IF path # "" /\ path # "-" THEN [out EXCEPT !.file = Some(t)]
    ELSE [out EXCEPT !.stdout = @ \o t]

\* the texts on the input: empty, a paragraph, a header with a list item, a
\* fenced block
MainTexts == {"", "a b c", "h:\n- a b", Fence \o "\na\n" \o Fence}

\* the options -c STYLE_AGENT and -c AGENT: missing, empty, a command
Options ==
    {[STYLE_AGENT |-> x, AGENT |-> y] : x \in {None, Some(""), Some("a")},
                                        y \in {None, Some("/a")}}

\* the keys style-agent and agent of the configuration
Configs ==
    {[style_agent |-> x, agent |-> y] : x \in {None, Some("~/a")},
                                        y \in {None, Some("a a")}}

\* the command lines: "" stands for no --output
CmdArgs ==
    {[output |-> o, indent |-> ind, max_lines |-> wid, config |-> c] :
        o \in {"", "-", "o.txt"}, ind \in {0, 1}, wid \in {0, 3}, c \in Options}

\* the agent files: all there and executable, none there, or the one named
\* by its absolute path not executable
MainFileSystems ==
    {[mode |-> m, tmp |-> {}, made |-> 0] :
        m \in {[f \in AgentFiles |-> "exec"], [f \in AgentFiles |-> "none"],
               [f \in AgentFiles |-> IF f = "/a" THEN "plain" ELSE "exec"]}}

InitMain ==
    /\ StyleIdle /\ DigIdle /\ ParseIdle /\ FnIdle
    /\ NotCalled /\ fs \in MainFileSystems
    /\ cmdargs \in CmdArgs
    /\ main_config \in Configs
    /\ raw_text \in MainTexts
    /\ example = "" /\ written = NoOutput /\ status = 0 /\ mpc = "start"

\* the state outside main and the call_agent it calls
notMain == <<styleVars, digVars, parseVars, fnVars>>

\* lines 207-210: no agent is configured
MainNoAgent ==
    /\ mpc = "start"
    /\ ~NonEmpty(ResolveAgent(cmdargs, main_config))
    /\ status' = 1
    /\ mpc' = "exited"
    /\ UNCHANGED <<cmdargs, main_config, raw_text, example, written>>
    /\ UNCHANGED <<agentVars, notMain>>

\* line 212: format_text raises, and the ValueError leaves main
MainFormatRaises ==
    /\ mpc = "start"
    /\ NonEmpty(ResolveAgent(cmdargs, main_config))
    /\ FormatTextRaises(raw_text, cmdargs.max_lines)
    /\ mpc' = "raised"
    /\ UNCHANGED <<cmdargs, main_config, raw_text, example, written, status>>
    /\ UNCHANGED <<agentVars, notMain>>

\* lines 207-215: the example is formatted, the prompt built and call_agent
\* entered
MainCallAgent ==
    /\ mpc = "start"
    /\ NonEmpty(ResolveAgent(cmdargs, main_config))
    /\ ~FormatTextRaises(raw_text, cmdargs.max_lines)
    /\ example' = FormatText(raw_text, cmdargs.indent, cmdargs.max_lines)
    /\ callee' = "ai"
    /\ prompt' = BuildPrompt(raw_text, cmdargs.indent, cmdargs.max_lines, example')
    /\ agent_cmd' = ResolveAgent(cmdargs, main_config).str
    /\ apc' = "resolve"
    /\ mpc' = "agent"
    /\ UNCHANGED <<fs, cmd_parts, tmp_path, runs, proc, returned>>
    /\ UNCHANGED <<cmdargs, main_config, raw_text, written, status>>
    /\ UNCHANGED notMain

\* lines 216-218: call_agent returned None or ''
MainNoResponse ==
    /\ mpc = "agent" /\ apc = "done"
    /\ ~NonEmpty(returned)
    /\ status' = 1
    /\ mpc' = "exited"
    /\ UNCHANGED <<cmdargs, main_config, raw_text, example, written>>
    /\ UNCHANGED <<agentVars, notMain>>

\* lines 220-230: the response is normalized and written
MainWrite ==
    /\ mpc = "agent" /\ apc = "done"
    /\ NonEmpty(returned)
    /\ written' = Write(written, cmdargs.output, Formatted(returned.str, example))
    /\ status' = 0
    /\ mpc' = "exited"
    /\ UNCHANGED <<cmdargs, main_config, raw_text, example>>
    /\ UNCHANGED <<agentVars, notMain>>

\* line 215: the interrupt that left call_agent leaves main
MainInterrupted ==
    /\ mpc = "agent" /\ apc = "raised"
    /\ mpc' = "raised"
    /\ UNCHANGED <<cmdargs, main_config, raw_text, example, written, status>>
    /\ UNCHANGED <<agentVars, notMain>>

NextMain ==
    \/ MainNoAgent
    \/ MainFormatRaises
    \/ MainCallAgent
    \/ ResolveAi
    \/ CreateTmp
    \/ CreateRaises
    \/ WritePrompt
    \/ WriteRaises
    \/ RunCompleted
    \/ RunRaises
    \/ Finally
    \/ MainNoResponse
    \/ MainWrite
    \/ MainInterrupted

SpecMain == InitMain /\ [][NextMain]_vars

(***************************************************************************)
(* Vocabulary of the properties.                                           *)
(***************************************************************************)
IsBlankLine(line) == Strip(line) = ""

RECURSIVE Flatten(_)
Flatten(ss) == IF ss = <<>> THEN <<>> ELSE ss[1] \o Flatten(Tail(ss))

\* paragraph n was rendered by _format_paragraph (a Plain or Bullet block)
IsWrapped(n) == ~IsBlankLine(flushed[n][1]) /\ ~IsPreformatted(flushed[n])

\* the lines of the rendering of paragraph n
ParaLines(n) == SplitLines(paragraphs[n])

RECURSIVE IsSubsequence(_, _)
IsSubsequence(xs, ys) ==
    IF xs = <<>> THEN TRUE
    ELSE IF ys = <<>> THEN FALSE
    ELSE IF xs[1] = ys[1] THEN IsSubsequence(Tail(xs), Tail(ys))
    ELSE IsSubsequence(xs, Tail(ys))

RECURSIVE MapRStrip(_)
MapRStrip(ls) == IF ls = <<>> THEN <<>> ELSE <<RStrip(ls[1])>> \o MapRStrip(Tail(ls))

RECURSIVE MapLStrip(_)
MapLStrip(ls) == IF ls = <<>> THEN <<>> ELSE <<LStrip(ls[1])>> \o MapLStrip(Tail(ls))

(***************************************************************************)
(* Word preservation.                                                      *)
(***************************************************************************)
RECURSIVE WordsIn(_)
\* the words of the Plain and Bullet blocks flushed so far, in input order
WordsIn(n) ==
    IF n = 0 THEN <<>>
    ELSE WordsIn(n - 1) \o (IF IsWrapped(n) THEN Split(Join(flushed[n], " ")) ELSE <<>>)

RECURSIVE WordsOut(_)
\* the words of their renderings, in output order
WordsOut(n) ==
    IF n = 0 THEN <<>>
    ELSE WordsOut(n - 1) \o (IF IsWrapped(n) THEN Split(paragraphs[n]) ELSE <<>>)

\* C1: the words of the renderings of the Plain and Bullet blocks are the
\* words of those blocks in the input, in the same order: none is dropped,
\* added, duplicated or reordered (the marker token of a list item included,
\* as the item's prefix).
C1_WordsPreserved ==
    WordsOut(Len(paragraphs)) = WordsIn(Len(paragraphs))

(***************************************************************************)
(* Width bound.                                                            *)
(***************************************************************************)
\* C2 as stated: every line of the returned text is at most width long,
\* unless it contains a word longer than width.
C2_EveryLineWithinWidth ==
    pc = "done" =>
        \A m \in 1..Len(SplitLines(result)) :
            LET line == SplitLines(result)[m]
            IN  \/ Len(line) <= width
                \/ \E w \in 1..Len(Split(line)) : Len(Split(line)[w]) > width

\* the prefix textwrap puts before line m of the rendering of paragraph n
LinePrefix(n, m) ==
    IF m = 1 THEN InitialIndent(flushed[n], indent)
    ELSE SubsequentIndent(flushed[n], indent)

\* C2 as amended: every line of the rendering of a Plain or Bullet block is
\* at most width long, unless it is its prefix (the indent, with the marker
\* or the hanging indent of a list item) followed by one single word that
\* does not fit in the width left after that prefix.
C2_WrappedLineWithinWidth ==
    \A n \in 1..Len(paragraphs) :
        IsWrapped(n) =>
            \A m \in 1..Len(ParaLines(n)) :
                LET line == ParaLines(n)[m]
                    rest == Drop(line, Len(LinePrefix(n, m)))
                IN  \/ Len(line) <= width
                    \/ /\ StartsWith(line, LinePrefix(n, m))
                       /\ Split(rest) = <<rest>>
                       /\ Len(line) > width

\* a block wrapped onto several lines, one of them an overlong single word
C2_Witness ==
    \E n \in 1..Len(paragraphs) :
        /\ IsWrapped(n)
        /\ Len(ParaLines(n)) >= 2
        /\ \E m \in 1..Len(ParaLines(n)) : Len(ParaLines(n)[m]) > width
        /\ \E m \in 1..Len(ParaLines(n)) : Len(Split(ParaLines(n)[m])) >= 2

(***************************************************************************)
(* Preformatted exactness.                                                 *)
(***************************************************************************)
RECURSIVE ProtectedLines(_, _)
\* the non-blank input lines inside a fenced region (fence lines included)
\* or indented by four spaces or a tab; inFence says a fence is open
ProtectedLines(ls, inFence) ==
    IF ls = <<>> THEN <<>>
    ELSE LET isFence == StartsWith(ls[1], Fence)
             indented == ~IsBlankLine(ls[1])
                         /\ (StartsWith(ls[1], FourSpaces) \/ StartsWith(ls[1], "\t"))
         IN  (IF ~IsBlankLine(ls[1]) /\ (inFence \/ isFence \/ indented)
              THEN <<ls[1]>> ELSE <<>>)
             \o ProtectedLines(Tail(ls), IF isFence THEN ~inFence ELSE inFence)

\* C3: every input line inside a fenced region, and every line indented by
\* four spaces or a tab, appears in the returned text with the same content
\* and in the same order.  Stated for the non-blank lines of those regions
\* and up to trailing whitespace (which the block-level trim may remove):
\* the least the claim requires.
C3_ProtectedLinesKept ==
    pc = "done" =>
        IsSubsequence(MapRStrip(ProtectedLines(lines, FALSE)),
                      MapRStrip(SplitLines(result)))

(***************************************************************************)
(* Idempotence.                                                            *)
(***************************************************************************)
\* C4: when every line of the returned text fits the width (no word was too
\* long), formatting the returned text again returns it unchanged.
C4_FixedPoint ==
    (pc = "done" /\ \A m \in 1..Len(SplitLines(result)) : Len(SplitLines(result)[m]) <= width)
        => FormatText(result, indent, width) = result

(***************************************************************************)
(* Shape of the returned text.                                             *)
(***************************************************************************)
\* C5: the returned text ends with exactly one newline, the character
\* before it (if any) is not whitespace, and an input without a non-blank
\* line returns exactly "\n".
C5_OneTrailingNewline ==
    pc = "done" =>
        /\ EndsWith(result, "\n")
        /\ Len(result) >= 2 => Ch(result, Len(result) - 1) \notin Whitespace
        /\ (\A n \in 1..Len(lines) : IsBlankLine(lines[n])) => result = "\n"

\* content followed by blank lines has been returned
C5_Witness ==
    /\ pc = "done"
    /\ Len(result) >= 2
    /\ normalized # <<>> /\ normalized[Len(normalized)] = ""

\* the lines of the returned text, its terminating newline apart
OutLines == SplitLines(SubSeq(result, 1, Len(result) - 1))

RECURSIVE InnerBlankRuns(_, _, _)
\* the number of runs of blank lines of ls that have a non-blank line before
\* them and after them; started: a non-blank line came before, inRun: in a run
InnerBlankRuns(ls, started, inRun) ==
    IF ls = <<>> THEN 0
    ELSE IF IsBlankLine(ls[1]) THEN InnerBlankRuns(Tail(ls), started, started)
    ELSE (IF inRun THEN 1 ELSE 0) + InnerBlankRuns(Tail(ls), TRUE, FALSE)

RECURSIVE CountBlank(_)
CountBlank(ls) ==
    IF ls = <<>> THEN 0
    ELSE (IF IsBlankLine(ls[1]) THEN 1 ELSE 0) + CountBlank(Tail(ls))

\* C6: every run of blank lines between two content blocks of the input
\* gives exactly one blank line of the returned text and no other blank line
\* is returned; the returned text does not start with a blank line; no two
\* consecutive lines of it are blank.
C6_BlankRunsCollapse ==
    pc = "done" =>
        LET out == OutLines
        IN  /\ CountBlank(out) = InnerBlankRuns(lines, FALSE, FALSE)
            /\ out # <<>> => ~IsBlankLine(out[1])
            /\ \A m \in 1..(Len(out) - 1) : ~(IsBlankLine(out[m]) /\ IsBlankLine(out[m + 1]))

(***************************************************************************)
(* List items and plain paragraphs.                                        *)
(***************************************************************************)
\* a marker token: one bullet character, or digits followed by one '.'
IsMarkerToken(tok) ==
    \/ tok \in Markers
    \/ EndsWith(tok, ".") /\ IsDigit(SubSeq(tok, 1, Len(tok) - 1))

\* a list item: a marker token, whitespace, text
IsListItem(line) ==
    /\ Len(Split(line)) >= 2
    /\ IsMarkerToken(Split(line)[1])

\* C7: a list item is rendered with a hanging indent: its first line is the
\* indent, the marker token, one space and text; every continuation line
\* starts with indent + len(marker token) + 1 spaces followed by text.
C7_HangingIndent ==
    \A n \in 1..Len(paragraphs) :
        (IsWrapped(n) /\ IsListItem(flushed[n][1])) =>
            LET marker == Split(flushed[n][1])[1]
                first == Spaces(indent) \o marker \o " "
                hang == Spaces(indent + Len(marker) + 1)
            IN  /\ ParaLines(n) # <<>>
                /\ StartsWith(ParaLines(n)[1], first)
                /\ Len(ParaLines(n)[1]) > Len(first)
                /\ Ch(ParaLines(n)[1], Len(first) + 1) \notin Whitespace
                /\ \A m \in 2..Len(ParaLines(n)) :
                       /\ StartsWith(ParaLines(n)[m], hang)
                       /\ Len(ParaLines(n)[m]) > Len(hang)
                       /\ Ch(ParaLines(n)[m], Len(hang) + 1) \notin Whitespace

\* C8: every line of the rendering of a Plain block (a wrapped block without
\* marker prefix) is exactly indent spaces followed by a non-whitespace
\* character, and the rendering is that of the block with the leading
\* whitespace of its lines removed.
C8_PlainIndent ==
    \A n \in 1..Len(paragraphs) :
        (IsWrapped(n) /\ BulletPrefix(flushed[n]) = "") =>
            /\ \A m \in 1..Len(ParaLines(n)) :
                   /\ StartsWith(ParaLines(n)[m], Spaces(indent))
                   /\ Len(ParaLines(n)[m]) > indent
                   /\ Ch(ParaLines(n)[m], indent + 1) \notin Whitespace
            /\ paragraphs[n] = FormatParagraph(MapLStrip(flushed[n]), indent, width)

\* an indented plain paragraph, its input indented otherwise, that wrapped
C8_Witness ==
    \E n \in 1..Len(paragraphs) :
        /\ IsWrapped(n) /\ BulletPrefix(flushed[n]) = ""
        /\ indent > 0
        /\ StartsWith(flushed[n][1], " ")
        /\ Len(ParaLines(n)) >= 2

\* C9: a line recognised as a list item is a block of its own: it is never
\* in the pending buffer after its iteration, and every flushed block that
\* holds such a line holds nothing else; the flushed blocks and the pending
\* buffer are the lines consumed so far.
C9_ItemsIsolated ==
    /\ \A m \in 1..Len(block) : ~IsBulletLine(block[m])
    /\ \A n \in 1..Len(flushed) :
           (\E m \in 1..Len(flushed[n]) : IsBulletLine(flushed[n][m]))
               => Len(flushed[n]) = 1
    /\ Len(flushed) = Len(paragraphs)
    /\ Flatten(flushed) \o block = SubSeq(lines, 1, i)

\* a list item between two plain lines, no blank line around it
C9_Witness ==
    \E n \in 2..Len(flushed) :
        /\ IsBulletLine(flushed[n][1])
        /\ ~IsBlankLine(flushed[n - 1][1]) /\ ~IsBulletLine(flushed[n - 1][1])
        /\ block # <<>>

\* the first token of the line is a bare number, a number closed by ')' or
\* a letter followed by '.'
NotNumberedItem(line) ==
    /\ Split(line) # <<>>
    /\ LET tok == Split(line)[1]
       IN  \/ IsDigit(tok)
           \/ EndsWith(tok, ")") /\ IsDigit(SubSeq(tok, 1, Len(tok) - 1))
           \/ Len(tok) = 2 /\ EndsWith(tok, ".") /\ Ch(tok, 1) \in {"a", "b", "c"}

\* C10: a line whose first token is a number without the '.' (or '1)', or
\* 'a.') is a plain line: after its iteration it is the last line of the
\* pending buffer, to be wrapped with the plain lines around it.
C10_BareNumberIsPlain ==
    (pc = "scan" /\ i > 0 /\ NotNumberedItem(lines[i]) /\ ~IsPreformatted(<<lines[i]>>))
        => (block # <<>> /\ block[Len(block)] = lines[i])

(***************************************************************************)
(* Classification of lines and buffers.                                    *)
(***************************************************************************)
\* the line is one marker token and nothing else
LoneMarker(line) == Len(Split(line)) = 1 /\ IsMarkerToken(Split(line)[1])

\* word w is one of the words of the returned text
InResult(w) == \E n \in 1..Len(Split(result)) : Split(result)[n] = w

\* line i, just consumed, is the last line of the pending buffer
LastLineIsPending == block # <<>> /\ block[Len(block)] = lines[i]

\* C11: a line that is only a marker (a lone '-', '*' or '+', or a lone
\* number token such as '1.') is plain text: after its iteration it is the
\* last line of the pending buffer, and its token is in the returned text.
C11_LoneMarkerIsPlain ==
    /\ (pc = "scan" /\ i > 0 /\ LoneMarker(lines[i])) => LastLineIsPending
    /\ pc = "done" =>
           \A n \in 1..Len(lines) :
               LoneMarker(lines[n]) => InResult(Split(lines[n])[1])

\* the first token starts with a marker character and goes on
MarkerGlued(line) ==
    /\ Split(line) # <<>>
    /\ StartsWithMarker(Split(line)[1])
    /\ Len(Split(line)[1]) > 1

\* C12: a line whose first token merely starts with a marker character
\* ('-foo bar') is a plain line: after its iteration it is the last line of
\* the pending buffer.
C12_GluedMarkerIsPlain ==
    (pc = "scan" /\ i > 0 /\ MarkerGlued(lines[i]) /\ ~IsPreformatted(<<lines[i]>>))
        => LastLineIsPending

\* a line of the buffer begins, once stripped, with the fence, or begins
\* with four spaces or a tab
ClaimedPreformatted(blk) ==
    \E m \in 1..Len(blk) :
        \/ StartsWith(Strip(blk[m]), Fence)
        \/ StartsWith(blk[m], FourSpaces)
        \/ StartsWith(blk[m], "\t")

\* C13: a buffer is flushed as Preformatted (its lines copied) exactly when
\* one of its lines begins, after stripping, with the fence or begins with
\* four spaces or a tab; otherwise it is rendered by _format_paragraph.
C13_PreformattedExactlyWhen ==
    \A n \in 1..Len(paragraphs) :
        ~IsBlankLine(flushed[n][1]) =>
            paragraphs[n] = IF ClaimedPreformatted(flushed[n])
                            THEN RStrip(Join(flushed[n], "\n"))
                            ELSE FormatParagraph(flushed[n], indent, width)

\* C14: a buffer flushed as Preformatted is emitted line for line: as many
\* lines as the buffer, each but the last identical to its input line, the
\* last identical up to trailing whitespace; the emitted text is the same
\* for every indent and width.
C14_PreformattedVerbatim ==
    \A n \in 1..Len(paragraphs) :
        (~IsBlankLine(flushed[n][1]) /\ IsPreformatted(flushed[n])) =>
            LET last == Len(flushed[n])
            IN  /\ Len(ParaLines(n)) = last
                /\ \A m \in 1..(last - 1) : ParaLines(n)[m] = flushed[n][m]
                /\ ParaLines(n)[last] = RStrip(flushed[n][last])
                /\ \A ind \in 0..MaxIndent : \A wid \in 1..MaxWidth :
                       paragraphs[n] = RenderBlock(flushed[n], ind, wid)

\* a preformatted buffer of two lines, one of them neither indented nor a
\* fence, the last one with trailing whitespace, flushed with an indent
C14_Witness ==
    \E n \in 1..Len(paragraphs) :
        /\ ~IsBlankLine(flushed[n][1]) /\ IsPreformatted(flushed[n])
        /\ Len(flushed[n]) >= 2
        /\ \E m \in 1..Len(flushed[n]) : ~PreformattedLine(flushed[n][m])
        /\ RStrip(flushed[n][Len(flushed[n])]) # flushed[n][Len(flushed[n])]
        /\ indent > 0

\* C15: in the rendering of a Plain or Bullet block the words of a line are
\* separated by exactly one space and no line ends with whitespace.
C15_SingleSpaces ==
    \A n \in 1..Len(paragraphs) :
        IsWrapped(n) =>
            \A m \in 1..Len(ParaLines(n)) :
                LET rest == LStrip(ParaLines(n)[m])
                IN  rest = Join(Split(rest), " ")

\* C16: format_text is total.  With a width above 0 no run of format_text
\* ends in an error, for any text and indent (a width of 0 does raise, in
\* textwrap); the loop indices stay within the lines and the paragraphs; what
\* is returned is a string; and _is_bullet_line and _is_preformatted give a
\* boolean for every line and every buffer.
C16_Total ==
    /\ width > 0 => pc # "raised"
    /\ i \in 0..Len(lines) /\ k \in 0..Len(paragraphs)
    /\ pc \in {"scan", "raised"} => k = 0
    /\ pc \in {"collapse", "done"} => i = Len(lines) /\ block = <<>>
    /\ pc = "done" => k = Len(paragraphs) /\ result \in STRING /\ result # ""
    /\ \A n \in 1..Len(lines) :
          /\ IsBulletLine(lines[n]) \in BOOLEAN
          /\ IsPreformatted(<<lines[n]>>) \in BOOLEAN
          /\ IsPreformatted(SubSeq(lines, 1, n)) \in BOOLEAN

\* a run returned for a text with an unterminated fence and a marker alone
C16_Witness ==
    /\ pc = "done" /\ width > 0
    /\ Len(lines) >= 2
    /\ Cardinality({n \in 1..Len(lines) : StartsWith(Strip(lines[n]), Fence)}) = 1
    /\ \E n \in 1..Len(lines) : LoneMarker(lines[n])
\* C17: format_text keeps and shares no state.  With the steps of two
\* invocations interleaved in any order, each returns the string that
\* format_text, as a function of (text, indent, width) alone, gives for its
\* own arguments, and the pending buffer of each call holds lines of its own
\* text only.
C17_CallsIndependent ==
    /\ pc = "done" => result = FormatText(text, indent, width)
    /\ peer.pc = "done" => peer.result = FormatText(peer.text, peer.indent, peer.width)
    /\ \A n \in 1..Len(block) : \E m \in 1..i : lines[m] = block[n]
    /\ \A n \in 1..Len(peer.block) : \E m \in 1..peer.i : peer.lines[m] = peer.block[n]

\* both calls are in the middle of their scans, each with lines pending
C17_Witness ==
    /\ pc = "scan" /\ block # <<>>
    /\ peer.pc = "scan" /\ peer.block # <<>>
    /\ peer.paragraphs # <<>>
    /\ block # peer.block
\* the sanitized form of the first n candidates, and the first place of an id
CleanUpTo(n) == {Sanitize(Candidates[m]) : m \in 1..n}

FirstPlace(id) == CHOOSE n \in 1..Len(Candidates) :
    /\ Sanitize(Candidates[n]) = id
    /\ \A m \in 1..(n - 1) : Sanitize(Candidates[m]) # id

\* the messages of the fetched threads, in one list
FetchedMessages == Flatten(fetched)

\* C18: download_and_combine_threads asks the archive for each distinct
\* sanitized message-id once, in the order of first occurrence among the
\* original id and then the related ones (an id whose sanitized form was
\* already asked for is passed over); every message-id found in the fetched
\* threads is in the mbox once; and the count returned is the number of
\* messages in the mbox, which is the number of distinct message-ids fetched.
C18_FetchOnceKeepOnce ==
    /\ \A p, q \in 1..Len(fetch_calls) : p # q => fetch_calls[p] # fetch_calls[q]
    /\ {fetch_calls[p] : p \in 1..Len(fetch_calls)} = CleanUpTo(cand) \ {""}
    /\ \A p, q \in 1..Len(fetch_calls) :
          p < q => FirstPlace(fetch_calls[p]) < FirstPlace(fetch_calls[q])
    /\ Len(fetched) = Len(fetch_calls)
    /\ \A p \in 1..Len(fetched) : fetched[p] \in {<<>>, Thread(fetch_calls[p])}
    /\ \A p, q \in 1..Len(all_messages) : p # q => all_messages[p].id # all_messages[q].id
    /\ IdsOf(all_messages) = IdsOf(FetchedMessages) \ {""}
    /\ \A p \in 1..Len(all_messages) :
          \E q \in 1..Len(FetchedMessages) : FetchedMessages[q] = all_messages[p]
    /\ dpc = "done" =>
          /\ cand = Len(Candidates)
          /\ total_messages = Cardinality(IdsOf(FetchedMessages) \ {""})
          /\ mbox.exists = (total_messages > 0)
          /\ mbox.exists => mbox.messages = all_messages
          /\ total_messages = Len(mbox.messages)

\* the run of the test: a related id in brackets that was already fetched, a
\* message that is in two fetched threads, three messages written
C18_Witness ==
    /\ dpc = "done" /\ total_messages = 3
    /\ Len(fetch_calls) = 2 /\ Len(Candidates) = 3
    /\ \E n \in 2..3 : Candidates[n] # Sanitize(Candidates[n])
                       /\ Sanitize(Candidates[n]) = Sanitize(Candidates[1])
    /\ Cardinality({q \in 1..Len(FetchedMessages) : FetchedMessages[q].id = "r@b"}) = 2
\* the message-id an item of the agent's list stands for: its msgid without
\* surrounding whitespace and angle brackets, "" for an item that is not an
\* object or has no msgid string
ItemId(item) ==
    IF item.t = "obj" /\ DictGet(item.kids, "msgid").t = "str"
    THEN Sanitize(DictGet(item.kids, "msgid").s) ELSE ""

\* the places in the list where a message-id occurs for the first time
FirstItems(items) ==
    {n \in 1..Len(items) :
        ItemId(items[n]) # "" /\ \A m \in 1..(n - 1) : ItemId(items[m]) # ItemId(items[n])}

\* entry is what the claim promises for item: the relationship lower-cased,
\* 'related' without one; the reason, 'No reason provided' without one
\* (compared up to surrounding whitespace)
EntryFor(entry, item) ==
    LET rel == DictGet(item.kids, "relationship")
        why == DictGet(item.kids, "reason")
    IN  /\ entry.msgid = ItemId(item)
        /\ entry.relationship = IF rel.t = "str" /\ Strip(rel.s) # ""
                                THEN Lower(Strip(rel.s)) ELSE "related"
        /\ IF why.t = "str" /\ why.s # ""
           THEN Strip(entry.reason) = Strip(why.s)
           ELSE entry.reason = "No reason provided"

\* C19: for a response that is a JSON array or holds one between other
\* text, what parse_agent_response returns is one entry per
\* distinct message-id of the array, in the order of first occurrence, with
\* the msgid sanitized, the relationship lower-cased or 'related', the reason
\* or 'No reason provided'; items that are not objects or have an empty
\* msgid give no entry.
C19_ArrayEntries ==
    (sent.body.t = "arr" /\ ppc = "done") =>
        LET items == sent.body.kids
            firsts == FirstItems(items)
        IN  /\ Len(related) = Cardinality(firsts)
            /\ \A n \in firsts :
                  EntryFor(related[Cardinality({m \in firsts : m <= n})], items[n])

\* the matches of the regular expression in the response, and the places
\* where a match occurs for the first time
Tokens == FindIter(response, 1)

FirstTokens == {n \in 1..Len(Tokens) : \A m \in 1..(n - 1) : Tokens[m] # Tokens[n]}

\* C20: the regular-expression fallback is used exactly when the JSON path
\* left related empty (an empty response returns before both).  When it is
\* used, related holds one entry per distinct match of the response, in the
\* order of first appearance, with relationship 'related' and reason 'Found
\* in agent response'; when it is not, related is what the JSON path left.
C20_FallbackWhenEmpty ==
    /\ fell_back => ppc = "done"
    /\ ppc = "done" =>
          /\ response # "" => (fell_back <=> from_json = <<>>)
          /\ response = "" => related = <<>> /\ ~fell_back
          /\ ~fell_back => related = from_json
          /\ fell_back =>
                /\ Len(related) = Cardinality(FirstTokens)
                /\ \A n \in FirstTokens :
                      related[Cardinality({m \in FirstTokens : m <= n})]
                          = Entry3(Tokens[n], "related", "Found in agent response")

\* a response without JSON in which an id occurs twice: the fallback gave two
\* entries for three matches
C20_Witness ==
    /\ ppc = "done" /\ fell_back
    /\ sent.body = JNull
    /\ Len(Tokens) = 3 /\ Len(related) = 2

\* C23: sanitize_msgid and _sanitize_msgid return a string without
\* surrounding whitespace and without surrounding angle brackets: it never
\* starts with '<', never ends with '>', has no leading or trailing
\* whitespace, and is empty for None and for an empty input.
C23_SanitizedIsBare ==
    (fpc = "returned" /\ fn \in Sanitizers) =>
        /\ ~ret.isnone
        /\ ~StartsWith(ret.str, "<")
        /\ ~EndsWith(ret.str, ">")
        /\ Strip(ret.str) = ret.str
        /\ (arg.isnone \/ arg.str = "") => ret.str = ""

\* what the normalizer fn strips from both ends of its argument
StrippedBy(f, s) == IF f = "normalize_output" THEN StripSet(s, Newline) ELSE Strip(s)

\* the normalizer fn applied to s
NormalizedBy(f, s) == IF f = "normalize_output" THEN NormalizeOutput(s) ELSE NormalizeCover(s)

\* C22: normalize_output and normalize_cover strip the code-fence wrapper:
\* when the text begins with a fence line (once its surrounding newlines,
\* for normalize_cover its surrounding whitespace, are set aside) the
\* returned text neither begins nor ends with a line that starts with a
\* fence, and the function returns its own result unchanged; a text that
\* does not begin with a fence is returned with its surrounding newlines
\* (whitespace) replaced by one trailing newline.
C22_FenceStripped ==
    (fpc = "returned" /\ fn \in Normalizers) =>
        LET stripped == StrippedBy(fn, arg.str)
            out == SplitLines(ret.str)
        IN  IF StartsWith(stripped, Fence)
            THEN /\ out # <<>> => /\ ~StartsWith(out[1], Fence)
                                  /\ ~StartsWith(out[Len(out)], Fence)
                 /\ NormalizedBy(fn, ret.str) = ret.str
            ELSE ret.str = stripped \o "\n"

\* C24: the segmentation of format_text is an order-preserving partition of
\* the input lines: the units flushed so far (one blank line each, or one
\* block of non-blank lines) followed by the pending block are exactly the
\* lines consumed, in order; every unit gave exactly one paragraph, its
\* rendering, so that a flush of an empty buffer gave none; a list item never
\* stays in the pending block; and the pending block is empty once the scan
\* has ended, all lines consumed.
C24_Partition ==
    pc \in {"scan", "collapse", "done"} =>
        /\ Flatten(flushed) \o block = SubSeq(lines, 1, i)
        /\ Len(paragraphs) = Len(flushed)
        /\ \A n \in 1..Len(flushed) :
              /\ flushed[n] # <<>>
              /\ IF IsBlankLine(flushed[n][1])
                 THEN Len(flushed[n]) = 1 /\ paragraphs[n] = ""
                 ELSE /\ \A m \in 1..Len(flushed[n]) : ~IsBlankLine(flushed[n][m])
                      /\ paragraphs[n] = RenderBlock(flushed[n], indent, width)
        /\ \A m \in 1..Len(block) :
              ~IsBlankLine(block[m]) /\ ~IsBulletLine(block[m])
        /\ pc # "scan" => block = <<>> /\ i = Len(lines)

\* a finished run that flushed a block of two lines before a list item, the
\* item alone, and an empty buffer after the last line
C24_Witness ==
    /\ pc = "done" /\ Len(lines) = 3 /\ Len(flushed) = 2
    /\ Len(flushed[1]) = 2
    /\ IsBulletLine(flushed[2][1])
    /\ C24_Partition

\* the text paragraph n of a Plain or Bullet block hands to fill (line 78)
WrapArg(n) ==
    IF BulletPrefix(flushed[n]) # "" THEN Remainder(flushed[n])
    ELSE Contents(flushed[n])

\* line m of the rendering of paragraph n without its prefix
AfterPrefix(n, m) ==
    LET line == ParaLines(n)[m]
    IN  IF Len(line) >= Len(LinePrefix(n, m)) THEN Drop(line, Len(LinePrefix(n, m)))
        ELSE ""

RECURSIVE WordsOfLines(_, _)
\* the words of the first m lines of the rendering of paragraph n
WordsOfLines(n, m) ==
    IF m = 0 THEN <<>> ELSE WordsOfLines(n, m - 1) \o Split(AfterPrefix(n, m))

\* C25: the wrapping of a Plain or Bullet block uses as few lines as can be.
\* The words on its lines are the words of the text that was wrapped, none
\* split; the first word of every line after the first would not have fitted
\* at the end of the line before it, after a single space; and a word that
\* is longer than the width left after the prefix is alone on its line.
C25_MinimalWrap ==
    \A n \in 1..Len(paragraphs) :
        (IsWrapped(n) /\ paragraphs[n] # "") =>
            /\ WordsOfLines(n, Len(ParaLines(n))) = Split(WrapArg(n))
            /\ \A m \in 2..Len(ParaLines(n)) :
                  /\ Split(AfterPrefix(n, m)) # <<>>
                  /\ Len(ParaLines(n)[m - 1]) + 1 + Len(Split(AfterPrefix(n, m))[1]) > width
            /\ \A m \in 1..Len(ParaLines(n)) :
                  \A w \in 1..Len(Split(AfterPrefix(n, m))) :
                      Len(LinePrefix(n, m)) + Len(Split(AfterPrefix(n, m))[w]) > width
                          => Len(Split(AfterPrefix(n, m))) = 1

\* paragraph n is rendered as a list item: _format_paragraph found a marker,
\* the first line of the rendering starts with the indent, the marker and a
\* space, and the lines after it with the hanging indent
RenderedAsItem(n) ==
    /\ BulletPrefix(flushed[n]) # ""
    /\ ParaLines(n) # <<>>
    /\ \A m \in 1..Len(ParaLines(n)) : StartsWith(ParaLines(n)[m], LinePrefix(n, m))

\* C26: the segmenter and the transformer agree on what a list item is.  A
\* block whose first line _is_bullet_line accepts, and which is not
\* preformatted, is rendered by _format_paragraph with a non-empty marker
\* prefix and a hanging indent; a block whose first line _is_bullet_line
\* rejects is rendered without a marker prefix.
C26_ItemAgreement ==
    \A n \in 1..Len(paragraphs) :
        IsWrapped(n) =>
            IF IsBulletLine(flushed[n][1]) THEN RenderedAsItem(n)
            ELSE BulletPrefix(flushed[n]) = ""

\* the command of the call does not resolve: it is empty, shlex cannot
\* parse it, or its executable is not found or not executable
Unresolvable ==
    \/ Strip(agent_cmd) = ""
    \/ ~ShlexSplit(Strip(agent_cmd)).ok
    \/ LookUp(fs, ShlexSplit(Strip(agent_cmd)).parts) = <<>>

\* subprocess.run was called once and the process exited with status 0
ExitedWithZero == Len(runs) = 1 /\ proc.exc = "" /\ proc.returncode = 0

\* C21: call_agent returns the captured standard output of the agent when
\* the command resolves and the process exits with status 0, and returns
\* None in every other case: a command that is empty, cannot be parsed, is
\* not found or not executable, a non-zero exit status, a timeout, or any
\* other Exception raised while the prompt is written or the process runs.
\* No Exception leaves call_agent: what does leave it is an interrupt.
C21_OutputOrNone ==
    /\ apc = "raised" => proc.exc \in Interrupts
    /\ apc = "done" =>
          /\ returned = IF ~Unresolvable /\ ExitedWithZero
                        THEN Some(proc.stdout) ELSE None
          /\ Unresolvable => runs = <<>>
          /\ proc.exc # "" => proc.exc \in ExceptionClasses

\* a command with an argument, found through PATH, has run and printed
C21_Witness ==
    /\ apc = "done"
    /\ Len(cmd_parts) = 2 /\ cmd_parts[1] = "/bin/a"
    /\ ExitedWithZero /\ proc.stdout # ""
    /\ returned = Some(proc.stdout)

\* C27: at most one temporary file is created per call of call_agent; once
\* one has been created it is unlinked before call_agent returns or is left
\* by an exception, on every path; and when the command does not resolve no
\* temporary file is created and no process is started.
C27_TempFileRemoved ==
    /\ fs.made <= 1
    /\ apc \in {"done", "raised"} => fs.tmp = {}
    /\ (apc \in {"done", "raised"} /\ Unresolvable) => fs.made = 0 /\ runs = <<>>

\* the agent main has resolved, None or '' when none is configured
Configured == ResolveAgent(cmdargs, main_config)

\* C28: main of style.py writes exactly normalize_output of the agent's
\* response to the chosen output, the file cmdargs.output or standard
\* output, and nothing else; format_text's own result is only the example
\* inside the prompt.  It exits with status 1 and has written nothing when
\* no agent is configured and when call_agent returned None or an empty
\* response, and nothing is written before main ends; when no agent is
\* configured call_agent is never entered, and when it is entered its
\* prompt is build_prompt of the text and the example, its command the
\* configured one.
C28_MainWritesResponse ==
    /\ mpc # "exited" => written = NoOutput
    /\ mpc = "exited" =>
          IF NonEmpty(Configured) /\ apc = "done" /\ NonEmpty(returned)
          THEN /\ status = 0
               /\ written = IF cmdargs.output \in {"", "-"}
                            THEN [stdout |-> NormalizeOutput(returned.str), file |-> None]
                            ELSE [stdout |-> "", file |-> Some(NormalizeOutput(returned.str))]
          ELSE status = 1 /\ written = NoOutput
    /\ ~NonEmpty(Configured) => apc = "idle" /\ runs = <<>> /\ fs.made = 0
    /\ apc # "idle" => agent_cmd = Configured.str
    /\ apc = "resolve" =>
          /\ example = FormatText(raw_text, cmdargs.indent, cmdargs.max_lines)
          /\ prompt = BuildPrompt(raw_text, cmdargs.indent, cmdargs.max_lines, example)

\* main has written to its file an agent's text that came within fences and
\* differs from the example format_text made
C28_Witness ==
    /\ mpc = "exited" /\ status = 0
    /\ cmdargs.output = "o.txt"
    /\ StartsWith(returned.str, Fence)
    /\ written.file = Some("out\n")
    /\ example \notin {"\n", "out\n"}

====
